---- MODULE Spec2Model ----
(***************************************************************************)
(* Model of rustload: the entity graph (Exe, Map, ExeMap, MarkovState),    *)
(* its training loop (scan, model update, accounting) and the event loop   *)
(* with its self-rescheduling timers.                                      *)
(*                                                                         *)
(* Rc<RefCell<T>> objects are modelled as heaps (functions from an object  *)
(* identity to the object's fields): exe_objs, markov_objs, map_objs.      *)
(* An Exe object is identified by the index of its path, a MarkovState     *)
(* object by the pair <<a, b>> it was created for, a Map object by the     *)
(* process, the region and the line of /proc/<pid>/maps it was made for.   *)
(***************************************************************************)
EXTENDS Integers, Sequences, FiniteSets, TLC

\* ------------------------------------------------------------------------
\* Bounds of the model
\* ------------------------------------------------------------------------
\* wall-clock horizon: no timer fires after this many seconds
MaxNow == 1

\* ------------------------------------------------------------------------
\* Environment: configuration values, executables, regions, /proc contents
\* ------------------------------------------------------------------------
\* values of conf.model.cycle that are explored
Cycles == {2, 3}

\* conf.system.mapprefix / conf.system.exeprefix (the defaults)
DefaultPrefix ==
    << <<"/", "o", "p", "t">>,
       <<"!", "/", "u", "s", "r", "/", "s", "b", "i", "n", "/">>,
       <<"!", "/", "u", "s", "r", "/", "l", "o", "c", "a", "l", "/", "s", "b", "i", "n", "/">>,
       <<"/", "u", "s", "r", "/">>,
       <<"!", "/">> >>

\* the configurations explored (struct Config): minsize is in the length
\* unit of RegionTable, autosave in seconds
Configs ==
    [cycle : Cycles, usecorrelation : {TRUE}, minsize : {2},
     doscan : BOOLEAN, dopredict : BOOLEAN, autosave : {1},
     mapprefix : {DefaultPrefix}, exeprefix : {DefaultPrefix}]

\* the executables that processes of the system may run, in path order
\* (BTreeMap<PathBuf, _> iterates in this order)
ExePathTable ==
    << <<"/", "u", "s", "r", "/", "b", "i", "n", "/", "a">>,
       <<"/", "u", "s", "r", "/", "b", "i", "n", "/", "b">>,
       <<"/", "u", "s", "r", "/", "b", "i", "n", "/", "c">> >>

ExeIds == 1..Len(ExePathTable)

\* the file-backed regions that processes may map: (path, offset, length)
RegionTable ==
    << [path |-> <<"/", "u", "s", "r", "/", "l", "i", "b", "/", "x">>, offset |-> 0, length |-> 2],
       [path |-> <<"/", "u", "s", "r", "/", "l", "i", "b", "/", "y">>, offset |-> 0, length |-> 1],
       [path |-> <<"/", "t", "m", "p", "/", "z">>, offset |-> 0, length |-> 1] >>

RegionIds == 1..Len(RegionTable)

\* what /proc/<pid>/maps may list for a process of each executable
\* (sequences of regions; the same region may be mapped twice)
MapLists ==
    << { <<1>>, <<1, 1>> },
       { <<1, 2>>, <<2>> },
       { <<1>>, <<2, 3>> } >>

\* outcome of probing the process of a new exe during a model update: the
\* list read from /proc/<pid>/maps and when the process exited (0: not at
\* all, 1: before the first get_maps, 2: between the two get_maps calls)
Probes(path) ==
    { [maps |-> l, exited |-> 0] : l \in MapLists[path] }
        \cup (IF path = Len(ExePathTable)
              THEN { [maps |-> <<>>, exited |-> 1], [maps |-> <<1>>, exited |-> 2] }
              ELSE {})

\* one probe outcome for each of the new exes
ProbeChoices(paths) ==
    {f \in [paths -> UNION {Probes(p) : p \in paths}] : \A p \in paths : f[p] \in Probes(p)}

\* ------------------------------------------------------------------------
\* f64 values (OrderedFloat<f64>): exact rationals n/d, the infinities, NaN
\* ------------------------------------------------------------------------
Abs(x) == IF x < 0 THEN -x ELSE x

RECURSIVE Gcd(_, _)
Gcd(x, y) == IF y = 0 THEN x ELSE Gcd(y, x % y)

Rat(n, d) ==
    LET g == Gcd(Abs(n), Abs(d))
        s == IF d < 0 THEN -1 ELSE 1
    IN  [k |-> "fin", n |-> s * (n \div g), d |-> s * (d \div g)]

Fin(n) == [k |-> "fin", n |-> n, d |-> 1]

PosInf == [k |-> "pinf", n |-> 0, d |-> 1]

NegInf == [k |-> "ninf", n |-> 0, d |-> 1]

NaN == [k |-> "nan", n |-> 0, d |-> 1]

FNeg(x) ==
    CASE x.k = "fin" -> Rat(-x.n, x.d)
      [] x.k = "pinf" -> NegInf
      [] x.k = "ninf" -> PosInf
      [] OTHER -> NaN

FAdd(x, y) ==
    CASE x.k = "nan" \/ y.k = "nan" -> NaN
      [] x.k = "fin" /\ y.k = "fin" -> Rat(x.n * y.d + y.n * x.d, x.d * y.d)
      [] x.k = "fin" -> y
      [] y.k = "fin" -> x
      [] x.k = y.k -> x
      [] OTHER -> NaN

FSub(x, y) == FAdd(x, FNeg(y))

\* x / (w as f64) for an integer w >= 0 (IEEE 754: x/0 is an infinity, 0/0 NaN)
FDivInt(x, w) ==
    CASE x.k = "nan" -> NaN
      [] w = 0 /\ x.k = "fin" ->
            IF x.n > 0 THEN PosInf ELSE IF x.n < 0 THEN NegInf ELSE NaN
      [] x.k = "fin" -> Rat(x.n, x.d * w)
      [] OTHER -> x

\* OrderedFloat's total order: -inf < finite < +inf < NaN, NaN == NaN
FCmp(x, y) ==
    LET rank(v) == CASE v.k = "ninf" -> 0 [] v.k = "fin" -> 1
                     [] v.k = "pinf" -> 2 [] OTHER -> 3
    IN  IF rank(x) # rank(y) THEN (IF rank(x) < rank(y) THEN -1 ELSE 1)
        ELSE IF x.k # "fin" THEN 0
        ELSE IF x.n * y.d < y.n * x.d THEN -1
        ELSE IF x.n * y.d > y.n * x.d THEN 1 ELSE 0

ArrayN == [i \in 0..3 |-> Fin(0)]

ArrayNxN == [i \in 0..3 |-> [j \in 0..3 |-> 0]]

\* ------------------------------------------------------------------------
\* proc.rs: prefix filter
\* ------------------------------------------------------------------------
\* std::path::Path::components of a path given as a sequence of characters:
\* the root marker followed by the non-empty names between the slashes
RECURSIVE SplitNames(_, _, _)
SplitNames(p, i, cur) ==
    IF i > Len(p) THEN (IF cur = <<>> THEN <<>> ELSE <<cur>>)
    ELSE IF p[i] = "/"
         THEN (IF cur = <<>> THEN <<>> ELSE <<cur>>) \o SplitNames(p, i + 1, <<>>)
         ELSE SplitNames(p, i + 1, Append(cur, p[i]))

Components(p) ==
    (IF Len(p) > 0 /\ p[1] = "/" THEN << <<"/">> >> ELSE <<>>) \o SplitNames(p, 1, <<>>)

\* std::path::Path::starts_with: base's components are a prefix of file's
PathStartsWith(file, base) ==
    LET f == Components(file)
        b == Components(base)
    IN  Len(b) <= Len(f) /\ \A i \in 1..Len(b) : f[i] = b[i]

RECURSIVE AcceptFrom(_, _, _)
AcceptFrom(file, prefixes, i) ==
    IF i > Len(prefixes) THEN TRUE
    ELSE LET rule == prefixes[i]
             negated == Len(rule) > 0 /\ rule[1] = "!"
             prefix == IF negated THEN SubSeq(rule, 2, Len(rule)) ELSE rule
         IN  IF PathStartsWith(file, prefix) THEN ~negated
             ELSE AcceptFrom(file, prefixes, i + 1)

\* accept_file deciding by the last rule that matches
accept_file_last_match(file, prefixes) ==
    LET m == {i \in 1..Len(prefixes) :
                 PathStartsWith(file, IF Len(prefixes[i]) > 0 /\ prefixes[i][1] = "!"
                                      THEN SubSeq(prefixes[i], 2, Len(prefixes[i]))
                                      ELSE prefixes[i])}
    IN  m = {} \/ \E i \in m : /\ \A j \in m : j <= i
                               /\ ~(Len(prefixes[i]) > 0 /\ prefixes[i][1] = "!")

\* proc::accept_file(file, Some(prefixes))
accept_file(file, prefixes) == AcceptFrom(file, prefixes, 1)

\* ------------------------------------------------------------------------
\* BTreeSet<RcCell<MarkovState>>: the derived Ord of MarkovState ignores the
\* endpoints a and b and compares the remaining fields in declaration order
\* ------------------------------------------------------------------------
MarkovKey(m) ==
    << Fin(m.state), Fin(m.time) >>
        \o [i \in 1..4 |-> m.time_to_leave[i - 1]]
        \o [i \in 1..16 |-> Fin(m.weight[(i - 1) \div 4][(i - 1) % 4])]
        \o << Fin(m.change_timestamp), Fin(m.cycle) >>

\* Ordering of two MarkovState objects: -1 Less, 0 Equal, 1 Greater
MarkovCmp(x, y) ==
    LET kx == MarkovKey(x)
        ky == MarkovKey(y)
        diff == {i \in 1..Len(kx) : FCmp(kx[i], ky[i]) # 0}
    IN  IF diff = {} THEN 0
        ELSE LET i == CHOOSE j \in diff : \A l \in diff : j <= l
             IN  FCmp(kx[i], ky[i])

\* BTreeSet::insert on a set that fits one leaf node: the node is searched
\* linearly from its first key; an element that compares Equal keeps the
\* old entry and drops the new one.  s is the set in iteration order.
BTreeInsert(s, id, heap) ==
    LET stop == {i \in 1..Len(s) : MarkovCmp(heap[id], heap[s[i]]) # 1}
    IN  IF stop = {} THEN Append(s, id)
        ELSE LET i == CHOOSE j \in stop : \A l \in stop : j <= l
             IN  IF MarkovCmp(heap[id], heap[s[i]]) = 0 THEN s
                 ELSE SubSeq(s, 1, i - 1) \o <<id>> \o SubSeq(s, i, Len(s))

\* Iterator::collect::<BTreeSet<_>>(): the elements are inserted one by one
RECURSIVE BTreeCollect(_, _, _)
BTreeCollect(items, heap, acc) ==
    IF items = <<>> THEN acc
    ELSE BTreeCollect(Tail(items), heap, BTreeInsert(acc, Head(items), heap))

\* ------------------------------------------------------------------------
\* state.rs: Exe and MarkovState
\* ------------------------------------------------------------------------
is_running(exe, state) == exe.running_timestamp >= state.last_running_timestamp

get_markov_state(a, b, state) ==
    (IF is_running(a, state) THEN 1 ELSE 0) + (IF is_running(b, state) THEN 2 ELSE 0)

\* the value the dwell-mean update divides by: weight[old][new] as it is when
\* the division is evaluated (after weight[old][old] += 1)
dwell_divisor(m, new_state) ==
    [m.weight EXCEPT ![m.state][m.state] = @ + 1][m.state][new_state]

\* state_changed without `self.state = new_state`
state_changed_keeps_state(m, a, b, state) ==
    IF m.change_timestamp = state.time THEN m
    ELSE LET old_state == m.state
             new_state == get_markov_state(a, b, state)
         IN  IF old_state = new_state THEN m
             ELSE LET w1 == [m.weight EXCEPT ![old_state][old_state] = @ + 1]
                      elapsed == Fin(state.time - m.change_timestamp)
                      ttl == FAdd(m.time_to_leave[old_state],
                                  FDivInt(FNeg(FSub(m.time_to_leave[old_state], elapsed)),
                                          w1[old_state][new_state]))
                  IN  [m EXCEPT !.weight = [w1 EXCEPT ![old_state][new_state] = @ + 1],
                                !.time_to_leave = [@ EXCEPT ![old_state] = ttl],
                                !.change_timestamp = state.time]

\* state_changed without `self.weight[old_state][old_state] += 1`
state_changed_no_leave_count(m, a, b, state) ==
    IF m.change_timestamp = state.time THEN m
    ELSE LET old_state == m.state
             new_state == get_markov_state(a, b, state)
         IN  IF old_state = new_state THEN m
             ELSE LET elapsed == Fin(state.time - m.change_timestamp)
                      ttl == FAdd(m.time_to_leave[old_state],
                                  FDivInt(FNeg(FSub(m.time_to_leave[old_state], elapsed)),
                                          m.weight[old_state][new_state]))
                  IN  [m EXCEPT !.weight[old_state][new_state] = @ + 1,
                                !.time_to_leave = [@ EXCEPT ![old_state] = ttl],
                                !.state = new_state,
                                !.change_timestamp = state.time]

\* MarkovState::state_changed on the chain m with endpoints a and b
state_changed(m, a, b, state) ==
    IF m.change_timestamp = state.time THEN m
    ELSE LET old_state == m.state
             new_state == get_markov_state(a, b, state)
         IN  IF old_state = new_state THEN m
             ELSE LET w1 == [m.weight EXCEPT ![old_state][old_state] = @ + 1]
                      elapsed == Fin(state.time - m.change_timestamp)
                      ttl == FAdd(m.time_to_leave[old_state],
                                  FDivInt(FNeg(FSub(m.time_to_leave[old_state], elapsed)),
                                          w1[old_state][new_state]))
                  IN  [m EXCEPT !.weight = [w1 EXCEPT ![old_state][new_state] = @ + 1],
                                !.time_to_leave = [@ EXCEPT ![old_state] = ttl],
                                !.state = new_state,
                                !.change_timestamp = state.time]

\* one call of state_changed on the chain object id, recorded in w.sc
CallStateChanged(w, id) ==
    LET before == w.markov[id]
        a == w.exe[before.a]
        b == w.exe[before.b]
        after == state_changed(before, a, b, w.state)
        s_new == get_markov_state(a, b, w.state)
        rec == [m |-> id, before |-> before, s_new |-> s_new,
                time |-> w.state.time,
                divisor |-> dwell_divisor(before, s_new), after |-> after]
    IN  [w EXCEPT !.markov[id] = after, !.sc = @ \cup {rec}]

\* the element of a singleton set: The({ e(x) : x \in {v} }) is e(v), with v
\* evaluated once (the result of one statement handed to the next one)
The(S) == CHOOSE x \in S : TRUE

\* Exe::add_markov
add_markov(w, e, id) ==
    [w EXCEPT !.exe[e].markovs = BTreeInsert(@, id, w.markov)]

Xor1(s) == IF s % 2 = 1 THEN s - 1 ELSE s + 1

Xor2(s) == IF (s \div 2) % 2 = 1 THEN s - 2 ELSE s + 2

\* MarkovState::new(a, b, cycle, initialize, state)
MarkovNew(w, a, b, cycle, initialize) ==
    LET a_ref == w.exe[a]
        b_ref == w.exe[b]
        st == w.state
        s0 == IF initialize THEN get_markov_state(a_ref, b_ref, st) ELSE 0
        c0 == IF initialize THEN st.time ELSE 0
        both == initialize /\ a_ref.change_timestamp > 0 /\ b_ref.change_timestamp > 0
        c1 == IF both /\ a_ref.change_timestamp < st.time
              THEN a_ref.change_timestamp ELSE c0
        c2 == IF both /\ b_ref.change_timestamp < st.time /\ b_ref.change_timestamp > c1
              THEN a_ref.change_timestamp ELSE c1
        s1 == IF both /\ a_ref.change_timestamp > c2 THEN Xor1(s0) ELSE s0
        s2 == IF both /\ b_ref.change_timestamp > c2 THEN Xor2(s1) ELSE s1
        id == <<a, b>>
        this == [a |-> a, b |-> b, state |-> s2, change_timestamp |-> c2,
                 cycle |-> cycle, time |-> 0, time_to_leave |-> ArrayN,
                 weight |-> ArrayNxN]
    IN  The({ The({ The({ add_markov(w3, b, id)
            : w3 \in {add_markov(w2, a, id)} })
            : w2 \in {IF initialize THEN CallStateChanged(w1, id) ELSE w1} })
            : w1 \in {[w EXCEPT !.markov = (id :> this) @@ @]} })

\* the elements of a finite set of integers in ascending order
RECURSIVE SortedSeq(_)
SortedSeq(S) ==
    IF S = {} THEN <<>>
    ELSE LET x == CHOOSE y \in S : \A z \in S : y <= z
         IN  <<x>> \o SortedSeq(S \ {x})

\* ------------------------------------------------------------------------
\* state.rs: Map, ExeMap and the registries of State
\* ------------------------------------------------------------------------
\* Map::new
MapNew(path, offset, length) ==
    [path |-> path, offset |-> offset, length |-> length, update_time |-> 0, seq |-> 0]

\* the derived PartialEq/Ord of Map: path, offset and length only
MapEq(x, y) == x.path = y.path /\ x.offset = y.offset /\ x.length = y.length

\* State::register_map on the Map object id; every call is recorded in w.rm
register_map(w, id) ==
    LET present == \E j \in w.state.maps : MapEq(w.map[j], w.map[id])
        map_seq == w.state.map_seq + 1
        seq == w.map[id].seq + map_seq
        done == IF present THEN [w EXCEPT !.err = TRUE]
                ELSE [w EXCEPT !.state.map_seq = map_seq,
                               !.map[id].seq = seq,
                               !.state.maps = @ \cup {id}]
        rec == [map |-> id, ok |-> ~present,
                seq_before |-> w.map[id].seq, seq_after |-> done.map[id].seq,
                map_seq_before |-> w.state.map_seq, map_seq_after |-> done.state.map_seq,
                maps_before |-> w.state.maps, maps_after |-> done.state.maps,
                prior_seqs |-> {w.map[j].seq : j \in DOMAIN w.map} \ {0},
                same_seq |-> Cardinality({j \in done.state.maps :
                                            done.map[j].seq = done.map[id].seq})]
    IN  [done EXCEPT !.rm = @ \cup {rec}]

\* ExeMap::new: registers the map, prob = 1.0
ExeMapNew(w, id) ==
    [w |-> register_map(w, id), exemap |-> [map |-> id, prob |-> Fin(1)]]

\* total of the raw lengths listed in /proc/<pid>/maps (first get_maps call,
\* maps = None and exemaps = None)
RECURSIVE ProbeSize(_)
ProbeSize(procmaps) ==
    IF procmaps = <<>> THEN 0
    ELSE RegionTable[Head(procmaps)].length + ProbeSize(Tail(procmaps))

\* the body of the loop of get_maps for entry i of procmaps; r holds the
\* world, the exemaps set and the size so far; the Map object made for
\* entry i of the process of exe pid is <<pid, region, i>>
get_maps_entry(r, pid, procmaps, i, maps, prefixes) ==
    LET reg == RegionTable[procmaps[i]]
        size == r.size + reg.length
        fresh == <<pid, procmaps[i], i>>
        newobj == MapNew(reg.path, reg.offset, reg.length)
        found == {j \in maps : MapEq(r.w.map[j], newobj)}
        newmap == IF found # {} THEN CHOOSE j \in found : TRUE ELSE fresh
    IN  IF ~accept_file(reg.path, prefixes) THEN [r EXCEPT !.size = size]
        ELSE The({ [w |-> em.w, size |-> size,
                    exemaps |->
                        IF em.w.err \/ \E x \in r.exemaps :
                                          /\ MapEq(em.w.map[x.map], em.w.map[newmap])
                                          /\ x.prob = em.exemap.prob
                        THEN r.exemaps ELSE r.exemaps \cup {em.exemap}]
                 : em \in {ExeMapNew([r.w EXCEPT !.map = (fresh :> newobj) @@ @], newmap)} })

\* proc::get_maps(pid, Some(maps), Some(exemaps), mapprefix, state) from the
\* i-th entry of procmaps on
RECURSIVE get_maps(_, _, _, _, _, _)
get_maps(r, pid, procmaps, i, maps, prefixes) ==
    IF r.w.err \/ i > Len(procmaps) THEN r
    ELSE The({ get_maps(r1, pid, procmaps, i + 1, maps, prefixes)
             : r1 \in {get_maps_entry(r, pid, procmaps, i, maps, prefixes)} })

\* Exe::new(path, is_running, exemaps, state)
ExeNew(w, is_run, exemaps) ==
    LET ts == IF is_run THEN w.state.last_running_timestamp ELSE -1
        lens == [x \in exemaps |-> w.map[x.map].length]
        RECURSIVE Sum(_)
        Sum(S) == IF S = {} THEN 0
                  ELSE LET x == CHOOSE y \in S : TRUE IN lens[x] + Sum(S \ {x})
    IN  [time |-> 0, update_time |-> ts, markovs |-> <<>>, exemaps |-> exemaps,
         size |-> Sum(exemaps), running_timestamp |-> ts,
         change_timestamp |-> w.state.time, seq |-> 0]

\* the loop of register_exe over the registered exes
RECURSIVE CreateMarkovs(_, _, _, _)
CreateMarkovs(w, others, exe, cycle) ==
    IF others = <<>> THEN w
    ELSE The({ CreateMarkovs(w1, Tail(others), exe, cycle)
             : w1 \in {IF Head(others) # exe
                       THEN MarkovNew(w, Head(others), exe, cycle, TRUE) ELSE w} })

\* State::register_exe(exe, create_markovs, cycle)
register_exe(w, exe, create_markovs, cycle) ==
    IF exe \in w.state.exes THEN [w EXCEPT !.err = TRUE]
    ELSE The({ [w1 EXCEPT !.state.exes = @ \cup {exe},
                          !.state.exe_seq = @ + 1,
                          !.exe[exe].seq = w1.state.exe_seq + 1]
             : w1 \in {IF create_markovs
                       THEN CreateMarkovs(w, SortedSeq(w.state.exes), exe, cycle)
                       ELSE w} })

\* ------------------------------------------------------------------------
\* spy.rs: scan and model update
\* ------------------------------------------------------------------------
\* running_process_callback without the look-up in bad_exes
running_process_callback_requeues(w, path) ==
    IF path \in w.state.exes
    THEN LET started == ~is_running(w.exe[path], w.state)
             w1 == IF started
                   THEN [w EXCEPT !.state.new_running_exes = Append(@, path),
                                  !.state.state_changed_exes = Append(@, path)]
                   ELSE w
         IN  [w1 EXCEPT !.exe[path].running_timestamp = w.state.time]
    ELSE [w EXCEPT !.state.new_exes = @ \cup {path}]

\* State::running_process_callback(pid, path)
running_process_callback(w, path) ==
    IF path \in w.state.exes
    THEN LET started == ~is_running(w.exe[path], w.state)
             w1 == IF started
                   THEN [w EXCEPT !.state.new_running_exes = Append(@, path),
                                  !.state.state_changed_exes = Append(@, path)]
                   ELSE w
         IN  [w1 EXCEPT !.exe[path].running_timestamp = w.state.time]
    ELSE IF path \notin DOMAIN w.state.bad_exes
         THEN [w EXCEPT !.state.new_exes = @ \cup {path}]
         ELSE [w EXCEPT !.skipped = @ \cup {path}]

\* State::exe_already_running_callback(exe)
exe_already_running_callback(w, exe) ==
    IF is_running(w.exe[exe], w.state)
    THEN [w EXCEPT !.state.new_running_exes = Append(@, exe)]
    ELSE [w EXCEPT !.state.state_changed_exes = Append(@, exe)]

\* proc::proc_foreach(func, exeprefix) with func = running_process_callback:
\* procs are the exes of the processes found in /proc
RECURSIVE proc_foreach(_, _, _)
proc_foreach(w, procs, prefixes) ==
    IF procs = <<>> THEN w
    ELSE The({ proc_foreach(w1, Tail(procs), prefixes)
             : w1 \in {IF accept_file(ExePathTable[Head(procs)], prefixes)
                       THEN running_process_callback(w, Head(procs)) ELSE w} })

\* the loop of scan over the exes that were running at the last scan
RECURSIVE AlreadyRunningEach(_, _)
AlreadyRunningEach(w, exes) ==
    IF exes = <<>> THEN w
    ELSE The({ AlreadyRunningEach(w1, Tail(exes))
             : w1 \in {exe_already_running_callback(w, Head(exes))} })

\* spy::scan(state, prefixes), statement by statement from the last line up
scan(w, procs, prefixes) ==
    The({ The({ [w2 EXCEPT !.state.running_exes = w2.state.new_running_exes]
        : w2 \in {AlreadyRunningEach(
                    [w1 EXCEPT !.state.last_running_timestamp = w1.state.time,
                               !.state.running_exes = <<>>],
                    w1.state.running_exes)} })
        : w1 \in {proc_foreach([w EXCEPT !.state.state_changed_exes = <<>>,
                                         !.state.new_running_exes = <<>>],
                               SortedSeq(procs), prefixes)} })

\* the end of new_exe_callback, after the second get_maps returned r
new_exe_register(r, path, maps, cycle) ==
    IF r.w.err THEN r.w
    ELSE IF r.size = 0 THEN [r.w EXCEPT !.state.maps = maps, !.err = TRUE]
    ELSE The({ The({ IF w2.err THEN w2
                     ELSE [w2 EXCEPT !.state.running_exes = Append(@, path)]
             : w2 \in {register_exe(w1, path, TRUE, cycle)} })
             : w1 \in {[r.w EXCEPT !.state.maps = maps,
                                   !.exe = (path :> ExeNew(r.w, TRUE, r.exemaps)) @@ @]} })

\* State::new_exe_callback(this, path, pid, mapprefix, minsize, cycle); probe
\* is what the two get_maps calls find in /proc/<pid>/maps
new_exe_callback(w, path, probe, prefixes, minsize, cycle) ==
    IF probe.exited = 1 THEN [w EXCEPT !.err = TRUE]
    ELSE IF ProbeSize(probe.maps) < minsize
    THEN [w EXCEPT !.state.bad_exes = (path :> ProbeSize(probe.maps)) @@ @]
    ELSE IF probe.exited = 2 THEN [w EXCEPT !.state.maps = {}, !.err = TRUE]
    ELSE The({ new_exe_register(r, path, w.state.maps, cycle)
             : r \in {get_maps([w |-> [w EXCEPT !.state.maps = {}],
                                size |-> 0, exemaps |-> {}],
                               path, probe.maps, 1, w.state.maps, prefixes)} })

\* the loop of changed_callback over the chains of the exe
RECURSIVE StateChangedEach(_, _)
StateChangedEach(w, ids) ==
    IF ids = <<>> THEN w
    ELSE The({ StateChangedEach(w1, Tail(ids))
             : w1 \in {CallStateChanged(w, Head(ids))} })

\* State::changed_callback(exe): the chains are taken out of the exe, updated
\* and collected into a set again
changed_callback(w, exe) ==
    The({ [w1 EXCEPT !.exe[exe].markovs =
                        BTreeCollect(w.exe[exe].markovs, w1.markov, <<>>)]
        : w1 \in {StateChangedEach(
                    [w EXCEPT !.exe[exe].change_timestamp = w.state.time,
                              !.exe[exe].markovs = <<>>],
                    w.exe[exe].markovs)} })

\* MarkovState::running_inc_time
markov_running_inc_time(m, time) ==
    IF m.state = 3 THEN [m EXCEPT !.time = @ + time] ELSE m

\* Exe::running_inc_time
exe_running_inc_time(exe, time, state) ==
    IF is_running(exe, state) THEN [exe EXCEPT !.time = @ + time] ELSE exe

\* the inner loop of markov_foreach: the chains whose endpoint a is exe
RECURSIVE IncTimeEach(_, _, _, _)
IncTimeEach(w, exe, ids, period) ==
    IF ids = <<>> THEN w
    ELSE The({ IncTimeEach(w1, exe, Tail(ids), period)
             : w1 \in {IF w.markov[Head(ids)].a = exe
                       THEN [w EXCEPT !.markov[Head(ids)] =
                                         markov_running_inc_time(@, period)]
                       ELSE w} })

\* State::markov_foreach(|markov| markov.running_inc_time(period))
RECURSIVE markov_foreach(_, _, _)
markov_foreach(w, exes, period) ==
    IF exes = <<>> THEN w
    ELSE The({ markov_foreach([w1 EXCEPT !.exe[Head(exes)].markovs =
                                 BTreeCollect(w.exe[Head(exes)].markovs, w1.markov, <<>>)],
                              Tail(exes), period)
             : w1 \in {IncTimeEach([w EXCEPT !.exe[Head(exes)].markovs = <<>>],
                                   Head(exes), w.exe[Head(exes)].markovs, period)} })

\* one call of new_exe_callback, recorded in w.nx: what the probe read, and
\* where the exe is when the call returns
CallNewExe(w, path, probe, prefixes, minsize, cycle) ==
    The({ [w1 EXCEPT !.nx = @ \cup
              {[path |-> path, exited |-> probe.exited,
                size |-> ProbeSize(probe.maps), minsize |-> minsize,
                existing |-> w.state.exes,
                registered |-> path \in w1.state.exes,
                bad |-> path \in DOMAIN w1.state.bad_exes,
                paired |-> IF path \in w1.state.exes
                           THEN {e \in w.state.exes :
                                   \E id \in DOMAIN w1.markov :
                                      /\ {w1.markov[id].a, w1.markov[id].b} = {e, path}
                                      /\ \E i \in 1..Len(w1.exe[e].markovs) :
                                            w1.exe[e].markovs[i] = id
                                      /\ \E i \in 1..Len(w1.exe[path].markovs) :
                                            w1.exe[path].markovs[i] = id}
                           ELSE {},
                mapped |-> IF path \in w1.state.exes
                           THEN {w1.map[x.map].path : x \in w1.exe[path].exemaps}
                           ELSE {}]}]
        : w1 \in {new_exe_callback(w, path, probe, prefixes, minsize, cycle)} })

\* the loop of update_model over new_exes: an error is remembered and the
\* loop goes on
RECURSIVE NewExeEach(_, _, _, _, _, _, _)
NewExeEach(w, paths, probes, prefixes, minsize, cycle, is_error) ==
    IF paths = <<>> THEN [w EXCEPT !.err = is_error]
    ELSE The({ NewExeEach(w1, Tail(paths), probes, prefixes, minsize, cycle,
                          is_error \/ w1.err)
             : w1 \in {CallNewExe([w EXCEPT !.err = FALSE], Head(paths),
                                  probes[Head(paths)], prefixes, minsize, cycle)} })

\* the loop of update_model over state_changed_exes
RECURSIVE ChangedEach(_, _)
ChangedEach(w, exes) ==
    IF exes = <<>> THEN w
    ELSE The({ ChangedEach(w1, Tail(exes))
             : w1 \in {changed_callback(w, Head(exes))} })

\* the accounting at the end of update_model
accounting(w) ==
    LET period == w.state.time - w.state.last_accounting_timestamp
    IN  The({ [w1 EXCEPT !.state.last_accounting_timestamp = w1.state.time]
            : w1 \in {markov_foreach(
                        [w EXCEPT !.exe = [e \in DOMAIN @ |->
                                             IF e \in w.state.exes
                                             THEN exe_running_inc_time(@[e], period, w.state)
                                             ELSE @[e]]],
                        SortedSeq(w.state.exes), period)} })

\* spy::update_model(state, mapprefix, minsize, cycle); w.err is its result
update_model(w, probes, prefixes, minsize, cycle) ==
    The({ IF w1.err THEN w1
          ELSE The({ accounting(w2)
                   : w2 \in {ChangedEach([w1 EXCEPT !.state.state_changed_exes = <<>>],
                                         w1.state.state_changed_exes)} })
        : w1 \in {NewExeEach([w EXCEPT !.state.new_exes = {}],
                             SortedSeq(w.state.new_exes),
                             probes, prefixes, minsize, cycle, FALSE)} })

\* ------------------------------------------------------------------------
\* prophet.rs: the part of predict that touches the graph structure
\* ------------------------------------------------------------------------
\* MarkovState::bid_in_exes borrows endpoint a mutably twice (and, from
\* predict, while predict holds a mutable borrow of the visited exe), so it
\* panics whenever it gets past its first return
bid_in_exes_panics(m) == m.weight[m.state][m.state] # 0

\* MarkovState::bid_in_exes(usecorrelation, state): the bids it makes, as
\* (endpoint, ystate) pairs in call order, or the panic it ends with.  Past
\* the first return, a is borrowed mutably (line 78) and then once more
\* (line 81) while the first borrow is alive, which panics before the two
\* bid_for_exe calls of lines 83 and 84 are reached.
bid_in_exes(m, usecorrelation) ==
    IF m.weight[m.state][m.state] = 0 THEN [panic |-> FALSE, bids |-> <<>>]
    ELSE [panic |-> TRUE, bids |-> <<>>]

\* the loop of predict over the exes
RECURSIVE PredictEach(_, _)
PredictEach(w, exes) ==
    IF exes = <<>> \/ w.panic THEN w
    ELSE The({ PredictEach(w1, Tail(exes))
             : w1 \in {IF \E i \in 1..Len(w.exe[Head(exes)].markovs) :
                             bid_in_exes_panics(w.markov[w.exe[Head(exes)].markovs[i]])
                       THEN [w EXCEPT !.panic = TRUE]
                       ELSE [w EXCEPT !.exe[Head(exes)].markovs =
                                         BTreeCollect(@, w.markov, <<>>)]} })

\* prophet::predict: every exe's markovs set is taken and collected again
predict(w) == PredictEach(w, SortedSeq(w.state.exes))

\* ------------------------------------------------------------------------
\* The program state
\* ------------------------------------------------------------------------
VARIABLES
    state,        \* struct State (exes: the keys of the BTreeMap; each key's
                  \* value is the Exe object of that path)
    exe_objs,     \* the Exe objects
    markov_objs,  \* the MarkovState objects
    map_objs,     \* the Map objects
    conf,         \* SharedData.conf
    now,          \* wall-clock seconds since the loop was started
    timers,       \* deadline of the pending timeout of each timer source
    loop,         \* "running", "stopped" (LoopSignal::stop) or "panicked"
    last_tick,    \* which of the handlers of tick and tick2 was dispatched last
    calls,        \* the state_changed, register_map, new_exe_callback and
                  \* save calls made by the handler that ran last, the
                  \* paths its running_process_callback passed over, and
                  \* the signal it was dispatched for
    trial         \* a function of the program applied on its own: its name,
                  \* its arguments and, once it returned, its result

mainvars == <<state, exe_objs, markov_objs, map_objs, conf, now, timers, loop,
              last_tick, calls>>

vars == <<mainvars, trial>>

\* no function is applied on its own while the event loop runs
NoTrial == [op |-> "none"]

EmptyFn == [x \in {} |-> 0]

\* State::default()
StateDefault ==
    [time |-> 0, exes |-> {}, bad_exes |-> EmptyFn, maps |-> {},
     running_exes |-> <<>>, map_seq |-> 0, exe_seq |-> 0,
     last_running_timestamp |-> 0, last_accounting_timestamp |-> 0,
     dirty |-> FALSE, model_dirty |-> FALSE,
     state_changed_exes |-> <<>>, new_running_exes |-> <<>>, new_exes |-> {}]

\* no call has been made
NoCalls ==
    [sc |-> {}, rm |-> {}, nx |-> {}, skipped |-> {}, saves |-> <<>>, signal |-> "none"]

\* the objects a handler works on, whether it has asked the loop to stop,
\* and the log of its calls
World ==
    [state |-> state, exe |-> exe_objs, markov |-> markov_objs, map |-> map_objs,
     sc |-> {}, rm |-> {}, nx |-> {}, skipped |-> {}, saves |-> <<>>, signal |-> "none",
     stop |-> FALSE, err |-> FALSE, panic |-> FALSE]

\* objects that nothing refers to any more are freed (Rc strong count 0)
LiveMarkovs(w) ==
    {id \in DOMAIN w.markov :
        \E e \in w.state.exes : \E i \in 1..Len(w.exe[e].markovs) : w.exe[e].markovs[i] = id}

LiveMaps(w) ==
    w.state.maps \cup
        {id \in DOMAIN w.map : \E e \in w.state.exes : \E x \in w.exe[e].exemaps : x.map = id}

Commit(w0) ==
    \E w \in {w0} :
    /\ state' = w.state
    /\ exe_objs' = [e \in w.state.exes |-> w.exe[e]]
    /\ markov_objs' = [id \in LiveMarkovs(w) |-> w.markov[id]]
    /\ map_objs' = [id \in LiveMaps(w) |-> w.map[id]]
    /\ calls' = [sc |-> w.sc, rm |-> w.rm, nx |-> w.nx, skipped |-> w.skipped,
                 saves |-> w.saves, signal |-> w.signal]

\* main.rs: State::load on an empty store, then State::run arms the timers
Init ==
    /\ state = StateDefault
    /\ exe_objs = EmptyFn
    /\ markov_objs = EmptyFn
    /\ map_objs = EmptyFn
    /\ conf \in Configs
    /\ now = 0
    /\ timers = [autosave |-> conf.autosave, tick |-> 0, tick2 |-> 0]
    /\ loop = "running"
    /\ last_tick = "none"
    /\ calls = NoCalls
    /\ trial = NoTrial

\* a timer source is dispatched when its timeout is the earliest pending one;
\* timeouts that expire at the same instant are dispatched in either order.
\* A timeout re-armed with a delay of zero seconds (tick2 with cycle = 1) has
\* expired again at every iteration of the loop, and holds no other timeout
\* back.
Due(t) ==
    /\ loop = "running"
    /\ timers[t] <= MaxNow
    /\ \A u \in DOMAIN timers :
          \/ timers[t] <= timers[u]
          \/ u = "tick2" /\ conf.cycle \div 2 = 0

\* event.rs: the handler of State::tick (scan, predict, advance the time)
Tick ==
    /\ Due("tick")
    /\ \E procs \in SUBSET ExeIds :
       \E w0 \in {World} :
       \E w1 \in {IF conf.doscan
                  THEN [scan(w0, procs, conf.mapprefix)
                          EXCEPT !.state.dirty = TRUE, !.state.model_dirty = TRUE]
                  ELSE w0} :
       \E w2 \in {IF conf.dopredict THEN predict(w1) ELSE w1} :
          IF w2.panic
          THEN /\ Commit(w2)
               /\ loop' = "panicked"
               /\ timers' = timers
          ELSE /\ Commit([w2 EXCEPT !.state.time = @ + conf.cycle \div 2])
               /\ loop' = loop
               /\ timers' = [timers EXCEPT !.tick = @ + (conf.cycle + 1) \div 2]
    /\ now' = timers.tick
    /\ last_tick' = "tick"
    /\ UNCHANGED <<conf, trial>>

\* event.rs: the handler of State::tick2 (model update, advance the time)
Tick2 ==
    /\ Due("tick2")
    /\ \E probes \in ProbeChoices(state.new_exes) :
       \E w0 \in {World} :
       \E w1 \in {IF state.model_dirty
                  THEN update_model(w0, probes, conf.mapprefix, conf.minsize, conf.cycle)
                  ELSE w0} :
          /\ Commit([w1 EXCEPT !.state.time = @ + conf.cycle \div 2])
          /\ loop' = IF w1.err THEN "stopped" ELSE loop
    /\ timers' = [timers EXCEPT !.tick2 = @ + conf.cycle \div 2]
    /\ now' = timers.tick2
    /\ last_tick' = "tick2"
    /\ UNCHANGED <<conf, trial>>

\* State::save that reports a failed write as a success
save_hides_error(w, written) ==
    [w EXCEPT !.saves = Append(@, [written |-> written, stop |-> w.stop])]

\* State::save: write_state succeeds or fails with a store error; the call
\* is recorded in w.saves with the stop request as it is when save is called
save(w, written) ==
    IF written
    THEN [w EXCEPT !.state.dirty = FALSE, !.state.bad_exes = EmptyFn,
                   !.saves = Append(@, [written |-> TRUE, stop |-> w.stop])]
    ELSE [w EXCEPT !.err = TRUE,
                   !.saves = Append(@, [written |-> FALSE, stop |-> w.stop])]

\* event.rs: the handler of State::autosave
Autosave ==
    /\ Due("autosave")
    /\ \E written \in BOOLEAN :
       \E w1 \in {save(World, written)} :
          /\ Commit(w1)
          /\ loop' = IF w1.err THEN "stopped" ELSE loop
    /\ timers' = [timers EXCEPT !.autosave = @ + conf.autosave]
    /\ now' = timers.autosave
    /\ UNCHANGED <<conf, last_tick, trial>>

Next == Tick \/ Tick2 \/ Autosave

Spec == Init /\ [][Next]_vars

\* ------------------------------------------------------------------------
\* Functions applied on their own: the event loop is not running and the
\* arguments are drawn from bounded sets
\* ------------------------------------------------------------------------
MaxWeight == 2

\* the event loop before State::run
Parked ==
    /\ state = StateDefault
    /\ exe_objs = EmptyFn
    /\ markov_objs = EmptyFn
    /\ map_objs = EmptyFn
    /\ conf \in {c \in Configs : c.cycle = 2 /\ c.doscan /\ c.dopredict}
    /\ now = 0
    /\ timers = [autosave |-> conf.autosave, tick |-> 0, tick2 |-> 0]
    /\ loop = "idle"
    /\ last_tick = "none"
    /\ calls = NoCalls

\* chains between the exes 1 and 2 in any state s, with any counts in row s
\* of weight that add up (see C2) and any dwell mean
BidChains ==
    {[a |-> 1, b |-> 2, state |-> s, change_timestamp |-> 1, cycle |-> 2, time |-> 0,
      time_to_leave |-> [ArrayN EXCEPT ![s] = ttl],
      weight |-> [ArrayNxN EXCEPT ![s] = [j \in 0..3 |->
                     IF j = s THEN x + y ELSE IF j = (s + 1) % 4 THEN x
                     ELSE IF j = (s + 2) % 4 THEN y ELSE 0]]]
        : s \in 0..3, x \in 0..MaxWeight, y \in 0..MaxWeight, ttl \in {Fin(0), Fin(3), PosInf}}

InitBid ==
    /\ Parked
    /\ trial \in {[op |-> "bid_in_exes", m |-> m, usecorrelation |-> u, done |-> FALSE,
                   out |-> [panic |-> FALSE, bids |-> <<>>]]
                       : m \in BidChains, u \in BOOLEAN}

BidInExes ==
    /\ trial.op = "bid_in_exes" /\ ~trial.done
    /\ trial' = [trial EXCEPT !.done = TRUE,
                              !.out = bid_in_exes(trial.m, trial.usecorrelation)]
    /\ UNCHANGED mainvars

SpecBid == InitBid /\ [][BidInExes]_vars

\* ------------------------------------------------------------------------
\* i32 arithmetic (state.time, Exe::time and MarkovState::time are i32).
\* With overflow checks (the dev profile) an overflowing operation panics;
\* without them (the release profile) it wraps modulo 2^32.  The products are
\* computed on 16-bit halves so that no intermediate value leaves 32 bits.
\* ------------------------------------------------------------------------
Lo16(x) == x % 65536

\* the signed upper half
Hi16(x) == (x - Lo16(x)) \div 65536

\* i32::wrapping_mul
WrappingMul(x, y) ==
    LET xl == Lo16(x)
        xh == Hi16(x)
        yl == Lo16(y)
        yh == Hi16(y)
        t0 == (xl % 256) * yl
        t1 == (xl \div 256) * yl
        low == t0 + (t1 % 256) * 256
        mid == (t1 \div 256) + (low \div 65536) + ((xh * yl) % 65536) + ((xl * yh) % 65536)
        hi16 == mid % 65536
    IN  (IF hi16 >= 32768 THEN hi16 - 65536 ELSE hi16) * 65536 + (low % 65536)

\* the product of two i32 does not fit in an i32
MulOverflows(x, y) == x # 0 /\ y # 0 /\ Abs(x) > 2147483647 \div Abs(y)

\* the difference of two i32 does not fit in an i32
SubOverflows(x, y) ==
    \/ y < 0 /\ x > 2147483647 + y
    \/ y > 0 /\ x < (-2147483647 - 1) + y

\* i32::wrapping_sub
WrappingSub(x, y) ==
    IF ~SubOverflows(x, y) THEN x - y
    ELSE IF y < 0 THEN (x - 2147483647 - 1) + (-(y + 1)) + (-2147483647)
    ELSE (x + 2147483647 + 1) - (y - 1) + 2147483647

\* the outcome of MarkovState::correlation: a panic, or the f64 it returns,
\* kept as the pair it is computed from: numerator / sqrt(denominator2), and
\* 0.0 when zero is set
CorrelationValue(zero, numerator, denominator2) ==
    [panic |-> FALSE, zero |-> zero, numerator |-> numerator, denominator2 |-> denominator2]

CorrelationPanic == [panic |-> TRUE, zero |-> FALSE, numerator |-> 0, denominator2 |-> 0]

\* MarkovState::correlation for state.time = t, a.time = a, b.time = b and
\* self.time = ab, built with or without overflow checks
correlation(t, a, b, ab, overflow_checks) ==
    IF a = 0 \/ a = t \/ b = 0 \/ b = t THEN CorrelationValue(TRUE, 0, 0)
    ELSE LET tab == WrappingMul(t, ab)
             axb == WrappingMul(a, b)
             ta == WrappingSub(t, a)
             tb == WrappingSub(t, b)
             tatb == WrappingMul(ta, tb)
         IN  IF overflow_checks /\ (\/ MulOverflows(t, ab) \/ MulOverflows(a, b)
                                    \/ SubOverflows(tab, axb)
                                    \/ SubOverflows(t, a) \/ SubOverflows(t, b)
                                    \/ MulOverflows(ta, tb) \/ MulOverflows(axb, tatb))
             THEN CorrelationPanic
             ELSE CorrelationValue(FALSE, WrappingSub(tab, axb), WrappingMul(axb, tatb))

\* the f64 a correlation outcome stands for is 0.0
IsZero(c) == ~c.panic /\ (c.zero \/ (c.numerator = 0 /\ c.denominator2 > 0))

\* the f64 a correlation outcome stands for lies in [-1, 1]: numerator^2 <=
\* denominator2 (the square root of a negative number is NaN, and a division
\* by 0.0 gives an infinity or NaN)
InUnit(c) ==
    /\ ~c.panic
    /\ \/ c.zero
       \/ /\ c.denominator2 > 0
          /\ Abs(c.numerator) <= 46340
          /\ c.numerator * c.numerator <= c.denominator2

\* the f64 a correlation outcome stands for is 1.0
IsOne(c) ==
    /\ ~c.panic /\ ~c.zero
    /\ c.denominator2 > 0
    /\ c.numerator > 0
    /\ c.numerator <= 46340
    /\ c.numerator * c.numerator = c.denominator2

MaxTime == 6

Min(x, y) == IF x <= y THEN x ELSE y

Max(x, y) == IF x >= y THEN x ELSE y

\* the times of a chain that ran for ab of the t seconds of the model, its
\* exes for a and b of them
CorrelationTimes(ts) ==
    {[t |-> t, a |-> a, b |-> b, ab |-> ab]
        : t \in ts, a \in 0..MaxTime, b \in 0..MaxTime, ab \in 0..MaxTime}

CorrelationInputs ==
    {i \in CorrelationTimes(0..MaxTime) :
        /\ i.a <= i.t /\ i.b <= i.t
        /\ i.ab <= Min(i.a, i.b) /\ i.ab >= i.a + i.b - i.t}
    \cup {[t |-> 2 * h, a |-> h, b |-> h, ab |-> h \div k] : h \in {8, 216}, k \in {1, 2}}

InitCorrelation ==
    /\ Parked
    /\ trial \in {[op |-> "correlation", in |-> i, overflow_checks |-> c, done |-> FALSE,
                   out |-> CorrelationPanic]
                    : i \in CorrelationInputs, c \in BOOLEAN}

Correlation ==
    /\ trial.op = "correlation" /\ ~trial.done
    /\ trial' = [trial EXCEPT !.done = TRUE,
                              !.out = correlation(trial.in.t, trial.in.a, trial.in.b,
                                                  trial.in.ab, trial.overflow_checks)]
    /\ UNCHANGED mainvars

SpecCorrelation == InitCorrelation /\ [][Correlation]_vars

\* ------------------------------------------------------------------------
\* prophet.rs: the memory budget of readahead
\* ------------------------------------------------------------------------
MaxMem == 4

\* i32::clamp
Clamp(x, lo, hi) == Max(lo, Min(x, hi))

\* i32 addition that overflows / wraps
AddOverflows(x, y) == SubOverflows(x, -y)

WrappingAdd(x, y) == WrappingSub(x, -y)

\* the product of a sequence of i32 factors, multiplied from the left:
\* the wrapped value, and whether a multiplication overflowed
RECURSIVE Product(_, _, _)
Product(acc, overflowed, factors) ==
    IF factors = <<>> THEN [value |-> acc, overflowed |-> overflowed]
    ELSE Product(WrappingMul(acc, Head(factors)),
                 overflowed \/ MulOverflows(acc, Head(factors)),
                 Tail(factors))

\* `memavail` of prophet::readahead in kilobytes, or the overflow panic of a
\* build with overflow checks: the four factors of the first term are
\* multiplied together, the product is raised to 0 and the cached term added
memavail(memstat, memtotal, memfree, memcached, overflow_checks) ==
    LET p == Product(Clamp(memtotal, -100, 100), FALSE,
                     << memstat.total \div 100,
                        Clamp(memfree, -100, 100),
                        memstat.free \div 100 >>)
        c == Clamp(memcached, -100, 100) * (memstat.cached \div 100)
        m == Max(p.value, 0)
    IN  IF overflow_checks /\ (p.overflowed \/ AddOverflows(m, c))
        THEN [panic |-> TRUE, kb |-> 0]
        ELSE [panic |-> FALSE, kb |-> WrappingAdd(m, c)]

\* proc::MemInfo (the fields readahead uses, in kilobytes): every snapshot
\* of the range, and one of a machine with 16 GB
MemInfos ==
    {m \in [total : {50 * k : k \in 0..MaxMem},
            free : {50 * k : k \in 0..MaxMem},
            cached : {50 * k : k \in 0..MaxMem}] :
        m.free <= m.total /\ m.cached <= m.total}
    \cup {[total |-> 16000000, free |-> 8000000, cached |-> 4000000]}

\* values of model.memtotal, model.memfree and model.memcached
Percents == {-150, -100, -10, 0, 1, 50, 100, 150}

InitBudget ==
    /\ Parked
    /\ trial \in {[op |-> "memavail", memstat |-> m, memtotal |-> pt, memfree |-> pf,
                   memcached |-> pc, overflow_checks |-> c, done |-> FALSE,
                   out |-> [panic |-> FALSE, kb |-> 0]]
                    : m \in MemInfos, pt \in Percents, pf \in Percents,
                      pc \in {-150, 0, 50}, c \in BOOLEAN}

Budget ==
    /\ trial.op = "memavail" /\ ~trial.done
    /\ trial' = [trial EXCEPT !.done = TRUE,
                              !.out = memavail(trial.memstat, trial.memtotal, trial.memfree,
                                               trial.memcached, trial.overflow_checks)]
    /\ UNCHANGED mainvars

SpecBudget == InitBudget /\ [][Budget]_vars

\* ------------------------------------------------------------------------
\* readahead.rs: merging the sorted Maps into requests
\* ------------------------------------------------------------------------
MaxFiles == 3

\* the loop of readahead::readahead over the sorted maps, from `path`,
\* `offset`, `length` and `to_process` as they are before an iteration;
\* PathBuf::default() is the empty path.  The result is `to_process` as the
\* worker pool receives it: nothing follows the loop, so the run that is
\* open when the loop ends is not pushed.
RECURSIVE coalesce(_, _, _, _, _)
coalesce(files, path, offset, length, to_process) ==
    IF files = <<>> THEN to_process
    ELSE IF /\ path # <<>>
            /\ offset <= Head(files).offset
            /\ offset + length >= Head(files).offset
            /\ Head(files).path = path
    THEN coalesce(Tail(files), path, offset,
                  Head(files).offset + Head(files).length - offset, to_process)
    ELSE coalesce(Tail(files), Head(files).path, Head(files).offset, Head(files).length,
                  IF path # <<>>
                  THEN Append(to_process, [path |-> path, offset |-> offset, length |-> length])
                  ELSE to_process)

\* the requests readahead::readahead makes of maps it has sorted
to_process(files) == coalesce(files, <<>>, 0, 0, <<>>)

\* Path::cmp on the paths of RegionTable, as the rank of the path
PathRank(path) == CHOOSE i \in RegionIds : RegionTable[i].path = path

\* the files a list is made of: two paths, offsets and lengths in bytes
Files ==
    [path : {RegionTable[1].path, RegionTable[2].path},
     offset : {0, 100, 200}, length : {50, 100}]

RECURSIVE SeqsUpTo(_, _)
SeqsUpTo(S, n) ==
    IF n = 0 THEN {<<>>}
    ELSE SeqsUpTo(S, n - 1)
         \cup {Append(s, x) : s \in {t \in SeqsUpTo(S, n - 1) : Len(t) = n - 1}, x \in S}

\* lists sorted by path, and by offset within a path
SortedFileLists ==
    {fs \in SeqsUpTo(Files, MaxFiles) :
        /\ fs # <<>>
        /\ \A i \in 1..Len(fs) - 1 :
              \/ PathRank(fs[i].path) < PathRank(fs[i + 1].path)
              \/ fs[i].path = fs[i + 1].path /\ fs[i].offset <= fs[i + 1].offset}

\* sorted lists in which an entry lies inside the one before it
ContainedFileLists ==
    {<< [path |-> RegionTable[1].path, offset |-> 0, length |-> 100],
        [path |-> RegionTable[1].path, offset |-> 10, length |-> 20] >> \o tl
        : tl \in {<<>>, << [path |-> RegionTable[2].path, offset |-> 0, length |-> 50] >>}}

InitCoalesce ==
    /\ Parked
    /\ trial \in {[op |-> "coalesce", files |-> fs, done |-> FALSE, out |-> <<>>]
                    : fs \in SortedFileLists \cup ContainedFileLists}

Coalesce ==
    /\ trial.op = "coalesce" /\ ~trial.done
    /\ trial' = [trial EXCEPT !.done = TRUE, !.out = to_process(trial.files)]
    /\ UNCHANGED mainvars

SpecCoalesce == InitCoalesce /\ [][Coalesce]_vars

\* ------------------------------------------------------------------------
\* prophet.rs and readahead.rs: choosing the Maps to read ahead and
\* handing them to the workers
\* ------------------------------------------------------------------------
MaxMaps == 2

\* common::kb: bytes to kibibytes
kb(v) == v \div 1024

\* the for_each of prophet::readahead over maps_arr with `memavail` as it is
\* before a Map: a Map that fails `lnprob < 0 && kb(length) <= memavail`
\* enters the body (memavail -= kb(length), prob_print, is_available =
\* true).  The result lists, for every Map, whether it entered the body
\* and memavail before and after it.
RECURSIVE budget_walk(_, _, _)
budget_walk(maps_arr, avail, steps) ==
    IF maps_arr = <<>> THEN steps
    ELSE IF ~(FCmp(Head(maps_arr).lnprob, Fin(0)) < 0 /\ kb(Head(maps_arr).length) <= avail)
    THEN budget_walk(Tail(maps_arr), WrappingSub(avail, kb(Head(maps_arr).length)),
                     Append(steps, [taken |-> TRUE, before |-> avail,
                                    after |-> WrappingSub(avail, kb(Head(maps_arr).length))]))
    ELSE budget_walk(Tail(maps_arr), avail,
                     Append(steps, [taken |-> FALSE, before |-> avail, after |-> avail]))

\* the orders a sort_unstable_by_key may leave a list in, keys[i] being
\* the key of files[i]
Orderings(files, keys) ==
    {[i \in 1..Len(files) |-> files[p[i]]]
        : p \in {q \in Permutations(1..Len(files)) :
                    \A i \in 1..Len(files) - 1 : keys[q[i]] <= keys[q[i + 1]]}}

\* the key of every file of a list
BlockKeys(files) == [i \in 1..Len(files) |-> files[i].block]

PathKeys(files) == [i \in 1..Len(files) |-> PathRank(files[i].path)]

\* st_ino of the files of RegionTable
Inode(path) == 10 - PathRank(path)

\* Map::set_block
set_block(file) == [file EXCEPT !.block = Inode(file.path)]

\* the loop of sort_by_block_or_inode over the path-sorted list when every
\* stat succeeds
StatAll(o) ==
    [i \in 1..Len(o) |-> IF o[i].block = -1 THEN set_block(o[i]) ELSE o[i]]

\* the same loop when the stat of file k fails: the files before k have
\* their block, Map::set_block has set the block of k to 0 before
\* `metadata()?` returned the error, and `?` leaves the loop
StatFailsAt(o, k) ==
    [i \in 1..Len(o) |->
        IF i < k /\ o[i].block = -1 THEN set_block(o[i])
        ELSE IF i = k THEN [o[i] EXCEPT !.block = 0]
        ELSE o[i]]

\* readahead::sort_by_block_or_inode: the list it leaves and whether it
\* returned an error (any stat may fail)
sort_by_block_or_inode(files) ==
    IF \E i \in 1..Len(files) : files[i].block = -1
    THEN UNION {{[err |-> FALSE, files |-> sorted]
                    : sorted \in Orderings(StatAll(o), BlockKeys(StatAll(o)))}
                \cup {[err |-> TRUE, files |-> StatFailsAt(o, k)]
                        : k \in {i \in 1..Len(o) : o[i].block = -1}}
                  : o \in Orderings(files, PathKeys(files))}
    ELSE {[err |-> FALSE, files |-> sorted] : sorted \in Orderings(files, BlockKeys(files))}

\* readahead::sort_files
sort_files(files, sortstrategy) ==
    CASE sortstrategy = "None" -> {[err |-> FALSE, files |-> files]}
      [] sortstrategy = "Path" ->
            {[err |-> FALSE, files |-> sorted] : sorted \in Orderings(files, PathKeys(files))}
      [] OTHER -> sort_by_block_or_inode(files)

\* readahead::readahead: the outcomes of sorting, merging and the worker
\* pool (`sort_files(maps, conf)?` returns the error of a failed stat
\* before anything is requested; every request may succeed or fail)
readahead(maps, sortstrategy) ==
    UNION {IF s.err
           THEN {[err |-> TRUE, sorted |-> s.files, requests |-> <<>>, processed |-> 0]}
           ELSE {[err |-> FALSE, sorted |-> s.files, requests |-> to_process(s.files),
                  processed |-> n] : n \in 0..Len(to_process(s.files))}
            : s \in sort_files(maps, sortstrategy)}

\* prophet::readahead: the outcomes for maps_arr in the order predict
\* sorted it, the MemInfo read and the percentages of the model
prophet_readahead(maps_arr, memstat, sortstrategy, memtotal, memfree, memcached, overflow_checks) ==
    LET budget == memavail(memstat, memtotal, memfree, memcached, overflow_checks)
        steps == budget_walk(maps_arr, budget.kb, <<>>)
        is_available == \E i \in 1..Len(steps) : steps[i].taken
        walked == [panic |-> FALSE, memavailtotal |-> budget.kb, steps |-> steps,
                   invoked |-> FALSE, handed |-> <<>>, sorted |-> <<>>,
                   err |-> FALSE, requests |-> <<>>, processed |-> 0]
    IN  IF budget.panic THEN {[walked EXCEPT !.panic = TRUE, !.steps = <<>>]}
        ELSE IF is_available
        THEN {[walked EXCEPT !.invoked = TRUE, !.handed = maps_arr, !.sorted = r.sorted,
                             !.err = r.err, !.requests = r.requests, !.processed = r.processed]
                : r \in readahead(maps_arr, sortstrategy)}
        ELSE {walked}

\* the Maps of the model with their sizes in bytes
ReadaheadRegions ==
    {[path |-> RegionTable[1].path, offset |-> 0, length |-> 2048],
     [path |-> RegionTable[1].path, offset |-> 2048, length |-> 1024],
     [path |-> RegionTable[2].path, offset |-> 0, length |-> 4096]}

\* state.maps after the bids of predict, sorted by lnprob: distinct Maps
\* with their lnprob, not yet stat-ed
MapsOnProb ==
    {ms \in SeqsUpTo([path : {r.path : r \in ReadaheadRegions},
                      offset : {r.offset : r \in ReadaheadRegions},
                      length : {r.length : r \in ReadaheadRegions},
                      lnprob : {Fin(-1), Fin(0)}, block : {-1}], MaxMaps) :
        /\ \A i \in 1..Len(ms) :
              [path |-> ms[i].path, offset |-> ms[i].offset, length |-> ms[i].length]
                  \in ReadaheadRegions
        /\ \A i, j \in 1..Len(ms) : i < j =>
              /\ ~MapEq(ms[i], ms[j])
              /\ FCmp(ms[i].lnprob, ms[j].lnprob) <= 0}

\* the MemInfo snapshots and percentage triples of the model
ReadaheadBudgets ==
    {[memstat |-> m, memtotal |-> p[1], memfree |-> p[2], memcached |-> p[3]]
        : m \in {[total |-> 100, free |-> 100, cached |-> 100],
                 [total |-> 200, free |-> 100, cached |-> 0]},
          p \in {<<0, 0, 0>>, <<-10, 50, 0>>, <<1, 2, 0>>, <<1, 4, 3>>, <<0, 0, -1>>}}

InitReadahead ==
    /\ Parked
    /\ trial \in {[op |-> "readahead", maps_arr |-> ms, budget |-> b, sortstrategy |-> s,
                   overflow_checks |-> c, done |-> FALSE,
                   out |-> [panic |-> FALSE, memavailtotal |-> 0, steps |-> <<>>,
                            invoked |-> FALSE, handed |-> <<>>, sorted |-> <<>>,
                            err |-> FALSE, requests |-> <<>>, processed |-> 0]]
                    : ms \in MapsOnProb, b \in ReadaheadBudgets,
                      s \in {"None", "Path", "Inode", "Block"}, c \in BOOLEAN}

Readahead ==
    /\ trial.op = "readahead" /\ ~trial.done
    /\ \E out \in prophet_readahead(trial.maps_arr, trial.budget.memstat, trial.sortstrategy,
                                    trial.budget.memtotal, trial.budget.memfree,
                                    trial.budget.memcached, trial.overflow_checks) :
          trial' = [trial EXCEPT !.done = TRUE, !.out = out]
    /\ UNCHANGED mainvars

SpecReadahead == InitReadahead /\ [][Readahead]_vars

\* ------------------------------------------------------------------------
\* readahead.rs: the worker pool (rayon's into_par_iter().for_each) over
\* to_process and the counter of the requests that succeeded
\* ------------------------------------------------------------------------
MaxRequests == 3

MaxThreads == 2

\* AtomicI32::fetch_add with a lost update
fetch_add_lost(processed, val) == processed

\* AtomicI32::fetch_add(val, SeqCst): one indivisible read-modify-write
fetch_add(processed, val) == processed + val

\* the pool before the parallel iterator starts: requests 1..n of
\* to_process, `processed` = AtomicI32::new(0), every thread idle
PoolNew(n, threads) ==
    [op |-> "pool", n |-> n, pending |-> 1..n,
     thread |-> [t \in 1..threads |-> [pc |-> "idle", item |-> 0]],
     attempts |-> [r \in 1..n |-> 0],
     outcome |-> [r \in 1..n |-> "none"],
     by |-> [r \in 1..n |-> 0],
     processed |-> 0, joined |-> FALSE, returned |-> 0]

InitPool ==
    /\ Parked
    /\ trial \in {PoolNew(n, threads) : n \in 0..MaxRequests, threads \in 1..MaxThreads}

\* an idle thread takes a request no thread has taken (every item of the
\* parallel iterator goes to one closure call)
Take(t) ==
    /\ trial.thread[t].pc = "idle"
    /\ \E r \in trial.pending :
          trial' = [trial EXCEPT !.pending = @ \ {r},
                                 !.thread[t] = [pc |-> "process", item |-> r],
                                 !.by[r] = t]

\* process_file returns: Ok(()) or the error of open / posix_fadvise, which
\* log_on_err logs
ProcessFile(t) ==
    /\ trial.thread[t].pc = "process"
    /\ \/ trial' = [trial EXCEPT !.attempts[trial.thread[t].item] = @ + 1,
                                 !.outcome[trial.thread[t].item] = "ok",
                                 !.thread[t].pc = "count"]
       \/ trial' = [trial EXCEPT !.attempts[trial.thread[t].item] = @ + 1,
                                 !.outcome[trial.thread[t].item] = "err",
                                 !.thread[t] = [pc |-> "idle", item |-> 0]]

\* map_or((), |_| { processed.fetch_add(1, SeqCst); }) of an Ok
FetchAdd(t) ==
    /\ trial.thread[t].pc = "count"
    /\ trial' = [trial EXCEPT !.processed = fetch_add(@, 1),
                              !.thread[t] = [pc |-> "idle", item |-> 0]]

\* for_each returns when every closure call has returned;
\* Ok(processed.into_inner())
Join ==
    /\ ~trial.joined
    /\ trial.pending = {}
    /\ \A t \in DOMAIN trial.thread : trial.thread[t].pc = "idle"
    /\ trial' = [trial EXCEPT !.joined = TRUE, !.returned = trial.processed]

PoolNext ==
    /\ trial.op = "pool"
    /\ \/ \E t \in DOMAIN trial.thread : Take(t) \/ ProcessFile(t) \/ FetchAdd(t)
       \/ Join
    /\ UNCHANGED mainvars

SpecPool == InitPool /\ [][PoolNext]_vars

\* ------------------------------------------------------------------------
\* proc.rs: accept_file applied to the paths and rule lists of a bounded
\* set
\* ------------------------------------------------------------------------
MaxRules == 3

\* candidate paths
AcceptFiles ==
    {<<"/", "b", "i", "n", "/", "l", "s">>,
     <<"/", "l", "i", "b", "/", "x">>,
     <<"/", "l", "i", "b", "6", "4", "/", "x">>,
     <<"/", "l", "i", "b", "e", "x", "e", "c", "/", "x">>,
     <<"/", "u", "s", "r", "/", "s", "b", "i", "n", "/", "c", "r", "o", "n">>,
     <<"/", "u", "s", "r", "/", "s", "b", "i", "n", "x">>,
     <<"/", "L", "I", "B", "/", "x">>}

\* prefix rules (System::mapprefix, System::exeprefix)
AcceptRules ==
    {<<"/", "s", "b", "i", "n">>,
     <<"/", "l", "i", "b">>,
     <<"/", "b", "i", "n">>,
     <<"!", "/", "b", "i", "n">>,
     <<"!", "/", "l", "i", "b">>,
     <<"!", "/", "u", "s", "r", "/", "s", "b", "i", "n", "/">>,
     <<"!", "/">>}

\* the rule lists; None and Some(&[]) both skip the loop of accept_file and
\* are the empty list here
RuleLists == SeqsUpTo(AcceptRules, MaxRules)

InitAccept ==
    /\ Parked
    /\ trial \in {[op |-> "accept_file", file |-> f, prefixes |-> ps, done |-> FALSE,
                   out |-> FALSE] : f \in AcceptFiles, ps \in RuleLists}

Accept ==
    /\ trial.op = "accept_file" /\ ~trial.done
    /\ trial' = [trial EXCEPT !.done = TRUE, !.out = accept_file(trial.file, trial.prefixes)]
    /\ UNCHANGED mainvars

SpecAccept == InitAccept /\ [][Accept]_vars

\* ------------------------------------------------------------------------
\* main.rs: the signal source of the event loop
\* ------------------------------------------------------------------------
\* Signals::new(&[SIGINT, SIGQUIT, SIGTERM, SIGHUP, SIGUSR1, SIGUSR2])
Signals == {"SIGINT", "SIGQUIT", "SIGTERM", "SIGHUP", "SIGUSR1", "SIGUSR2"}

\* LoopSignal::stop
stop(w) == [w EXCEPT !.stop = TRUE]

\* the SIGUSR2 arm with the stop requested before the save
save_and_stop_reversed(w, written) ==
    [save(stop(w), written) EXCEPT !.err = FALSE]

\* the SIGUSR2 arm of the handler: save, `.ok()` drops its error, then stop
save_and_stop(w, written) ==
    stop([save(w, written) EXCEPT !.err = FALSE])

\* the closure of set_signal_handlers on the objects of State (SIGHUP
\* replaces shared.conf, SIGUSR1 only logs)
signal_handler(w, sig, written) ==
    CASE sig = "SIGUSR2" -> save_and_stop([w EXCEPT !.signal = sig], written)
      [] sig \in {"SIGHUP", "SIGUSR1"} -> [w EXCEPT !.signal = sig]
      [] OTHER -> stop([w EXCEPT !.signal = sig])

\* a signal is dispatched while the loop runs; config::load_config of
\* SIGHUP may return any configuration or fail
Signal ==
    /\ loop = "running"
    /\ \E sig \in Signals, written \in BOOLEAN, loaded \in Configs :
       \E w1 \in {signal_handler(World, sig, written)} :
          /\ Commit(w1)
          /\ loop' = IF w1.stop THEN "stopped" ELSE loop
          /\ conf' = IF sig = "SIGHUP" THEN loaded ELSE conf
    /\ UNCHANGED <<now, timers, last_tick, trial>>

\* the loop of State::run with its scan timer and the signal source
NextSignals == Tick \/ Signal

SpecSignals == Init /\ [][NextSignals]_vars

\* ------------------------------------------------------------------------
\* state.rs: persistence.  A store is the content of the tables of
\* schema.rs, each table as the sequence of its rows in insertion order
\* (the id column is the position of the row)
\* ------------------------------------------------------------------------
\* the store after database::conn_and_migrate on a new file
EmptyStore ==
    [states |-> <<>>, maps |-> <<>>, badexes |-> <<>>, exes |-> <<>>,
     exemaps |-> <<>>, markovstates |-> <<>>]

FileScheme == <<"f", "i", "l", "e", ":", "/", "/">>

\* Url::from_file_path(path).to_string() on an absolute ASCII path
filename_to_uri(path) == FileScheme \o path

\* Url::parse(uri).to_file_path()
uri_to_filename(uri) == SubSeq(uri, Len(FileScheme) + 1, Len(uri))

\* rmp_serde::to_vec and from_read_ref on ArrayN<4> (a 4-element array)
ttl_to_vec(a) == [i \in 1..4 |-> a[i - 1]]

ttl_from_read_ref(v) == [i \in 0..3 |-> v[i + 1]]

\* rmp_serde::to_vec and from_read_ref on ArrayNxN<4> (row after row)
weight_to_vec(m) == [i \in 1..16 |-> m[(i - 1) \div 4][(i - 1) % 4]]

weight_from_read_ref(v) == [i \in 0..3 |-> [j \in 0..3 |-> v[4 * i + j + 1]]]

\* the exe of ExePathTable that has the path
ExeOfPath(path) == CHOOSE e \in ExeIds : ExePathTable[e] = path

\* the semantic versions a binary may have (major, minor, patch)
Versions == {<<0, 9, 0>>, <<1, 0, 0>>, <<2, 0, 0>>}

\* crate_version!() of the binary that loads
crate_version == <<1, 0, 0>>

\* the derived Ord of Map: path, then offset, then length
MapLe(x, y) ==
    \/ PathRank(x.path) < PathRank(y.path)
    \/ /\ PathRank(x.path) = PathRank(y.path)
       /\ \/ x.offset < y.offset
          \/ x.offset = y.offset /\ x.length <= y.length

\* the iteration order of a BTreeSet<RcCell<Map>>
RECURSIVE MapsInOrder(_, _)
MapsInOrder(heap, ids) ==
    IF ids = {} THEN <<>>
    ELSE LET x == CHOOSE y \in ids : \A z \in ids : MapLe(heap[y], heap[z])
         IN  <<x>> \o MapsInOrder(heap, ids \ {x})

\* the iteration order of a BTreeSet<ExeMap>: by map, then by prob
RECURSIVE ExeMapsInOrder(_, _)
ExeMapsInOrder(heap, exemaps) ==
    IF exemaps = {} THEN <<>>
    ELSE LET x == CHOOSE y \in exemaps : \A z \in exemaps :
                     \/ ~MapLe(heap[z.map], heap[y.map])
                     \/ /\ MapLe(heap[y.map], heap[z.map])
                        /\ FCmp(y.prob, z.prob) <= 0
         IN  <<x>> \o ExeMapsInOrder(heap, exemaps \ {x})

\* State::write_self: replace_into the row of id 1
write_self(w, store, version) ==
    [store EXCEPT !.states = <<[version |-> version, time |-> w.state.time]>>]

\* Map::write_all
MapWriteAll(w, store, maps) ==
    [store EXCEPT !.maps = @ \o
        [i \in 1..Len(maps) |->
            [seq |-> w.map[maps[i]].seq, update_time |-> w.map[maps[i]].update_time,
             offset |-> w.map[maps[i]].offset, length |-> w.map[maps[i]].length,
             uri |-> filename_to_uri(w.map[maps[i]].path)]]]

\* ReadWriteBadExe::write_all
BadExeWriteAll(w, store, paths) ==
    [store EXCEPT !.badexes = @ \o
        [i \in 1..Len(paths) |->
            [update_time |-> w.state.bad_exes[paths[i]],
             uri |-> filename_to_uri(ExePathTable[paths[i]])]]]

\* Exe::write_all
ExeWriteAll(w, store, exes) ==
    [store EXCEPT !.exes = @ \o
        [i \in 1..Len(exes) |->
            [seq |-> w.exe[exes[i]].seq, update_time |-> w.exe[exes[i]].update_time,
             time |-> w.exe[exes[i]].time,
             uri |-> filename_to_uri(ExePathTable[exes[i]])]]]

\* ExeMap::write_all(exemaps, exe)
ExeMapWriteAll(w, store, exemaps, exe) ==
    [store EXCEPT !.exemaps = @ \o
        [i \in 1..Len(exemaps) |->
            [seq |-> w.exe[exe].seq, map_seq |-> w.map[exemaps[i].map].seq,
             prob |-> exemaps[i].prob]]]

\* MarkovState::write_all
MarkovWriteAll(w, store, markovs) ==
    [store EXCEPT !.markovstates = @ \o
        [i \in 1..Len(markovs) |->
            [a_seq |-> w.exe[w.markov[markovs[i]].a].seq,
             b_seq |-> w.exe[w.markov[markovs[i]].b].seq,
             time |-> w.markov[markovs[i]].time,
             time_to_leave |-> ttl_to_vec(w.markov[markovs[i]].time_to_leave),
             weight |-> weight_to_vec(w.markov[markovs[i]].weight)]]]

\* the loop of write_state over the exes: the exemaps and the chains of
\* each exe
RECURSIVE WriteEachExe(_, _, _)
WriteEachExe(w, store, exes) ==
    IF exes = <<>> THEN store
    ELSE The({ WriteEachExe(w, s2, Tail(exes))
             : s2 \in {MarkovWriteAll(w,
                          ExeMapWriteAll(w, store,
                              ExeMapsInOrder(w.map, w.exe[Head(exes)].exemaps), Head(exes)),
                          w.exe[Head(exes)].markovs)} })

\* State::write_state when every statement succeeds, by a binary of the
\* given version
write_state(w, store, version) ==
    The({ WriteEachExe(w, s3, SortedSeq(w.state.exes))
        : s3 \in {ExeWriteAll(w,
                     BadExeWriteAll(w,
                         MapWriteAll(w, write_self(w, store, version),
                                     MapsInOrder(w.map, w.state.maps)),
                         SortedSeq(DOMAIN w.state.bad_exes)),
                     SortedSeq(w.state.exes))} })

\* State::default() in a new process, no object made yet
NewWorld ==
    [state |-> StateDefault, exe |-> EmptyFn, markov |-> EmptyFn, map |-> EmptyFn,
     sc |-> {}, rm |-> {}, nx |-> {}, skipped |-> {}, saves |-> <<>>, signal |-> "none",
     stop |-> FALSE, err |-> FALSE, panic |-> FALSE]

\* Ordering of my_version.major.cmp(&read_version.major): -1 Less, 0 Equal,
\* 1 Greater
MajorCmp(my_version, read_version) ==
    IF my_version[1] < read_version[1] THEN -1
    ELSE IF my_version[1] > read_version[1] THEN 1 ELSE 0

\* State::read_self: the three orderings differ in the warning that is
\* logged only
read_self(w, store, my_version) ==
    IF store.states = <<>> THEN w
    ELSE LET db_state == store.states[1]
             warning == CASE MajorCmp(my_version, db_state.version) = -1 -> "newer"
                          [] MajorCmp(my_version, db_state.version) = 1 -> "older"
                          [] OTHER -> "none"
         IN  [w EXCEPT !.state.time = db_state.time,
                       !.state.last_accounting_timestamp = db_state.time]

\* Map::read_all from row i on; r holds the world and map_seqs.  The Map
\* object made for row i is <<0, 0, i>>; a failed register_map is logged
\* and dropped
RECURSIVE MapReadAll(_, _, _)
MapReadAll(r, db_maps, i) ==
    IF r.w.err \/ i > Len(db_maps) THEN r
    ELSE LET db_map == db_maps[i]
             id == <<0, 0, i>>
             map == [MapNew(uri_to_filename(db_map.uri), db_map.offset, db_map.length)
                        EXCEPT !.update_time = db_map.update_time]
         IN  IF db_map.seq \in DOMAIN r.map_seqs
             THEN [r EXCEPT !.w.err = TRUE]
             ELSE The({ MapReadAll([r EXCEPT !.w = [w1 EXCEPT !.err = FALSE],
                                             !.map_seqs = (db_map.seq :> id) @@ @],
                                   db_maps, i + 1)
                      : w1 \in {register_map([r.w EXCEPT !.map = (id :> map) @@ @], id)} })

\* ReadWriteBadExe::read_all
RECURSIVE BadExeReadAll(_, _, _)
BadExeReadAll(w, db_badexes, i) ==
    IF i > Len(db_badexes) THEN w
    ELSE BadExeReadAll(
             [w EXCEPT !.state.bad_exes =
                 (ExeOfPath(uri_to_filename(db_badexes[i].uri)) :> db_badexes[i].update_time)
                     @@ [p \in DOMAIN @ \ {ExeOfPath(uri_to_filename(db_badexes[i].uri))} |-> @[p]]],
             db_badexes, i + 1)

\* Exe::read_all from row i on; r holds the world and exe_seqs
RECURSIVE ExeReadAll(_, _, _, _)
ExeReadAll(r, db_exes, i, cycle) ==
    IF r.w.err \/ i > Len(db_exes) THEN r
    ELSE LET db_exe == db_exes[i]
             path == ExeOfPath(uri_to_filename(db_exe.uri))
             exe == [ExeNew(r.w, FALSE, {}) EXCEPT !.change_timestamp = -1,
                                                   !.update_time = db_exe.update_time,
                                                   !.time = db_exe.time]
         IN  IF db_exe.seq \in DOMAIN r.exe_seqs \/ path \in r.w.state.exes
             THEN [r EXCEPT !.w.err = TRUE]
             ELSE The({ ExeReadAll([r EXCEPT !.w = w1,
                                             !.exe_seqs = (db_exe.seq :> path) @@ @],
                                   db_exes, i + 1, cycle)
                      : w1 \in {register_exe([r.w EXCEPT !.exe = (path :> exe) @@ @],
                                             path, FALSE, cycle)} })

\* ExeMap::new_exe_map(exe, map, prob, state)
new_exe_map(w, exe, map, prob) ==
    The({ IF em.w.err THEN em.w
          ELSE [em.w EXCEPT !.exe[exe].size = @ + em.w.map[map].length,
                            !.exe[exe].exemaps =
                                IF \E x \in @ : /\ MapEq(em.w.map[x.map], em.w.map[map])
                                                /\ x.prob = prob
                                THEN @ ELSE @ \cup {[map |-> map, prob |-> prob]}]
        : em \in {ExeMapNew(w, map)} })

\* ExeMap::read_all from row i on
RECURSIVE ExeMapReadAll(_, _, _)
ExeMapReadAll(r, db_exemaps, i) ==
    IF r.w.err \/ i > Len(db_exemaps) THEN r
    ELSE LET db_exemap == db_exemaps[i]
         IN  IF db_exemap.seq \notin DOMAIN r.exe_seqs
                  \/ db_exemap.map_seq \notin DOMAIN r.map_seqs
             THEN ExeMapReadAll([r EXCEPT !.skipped = @ \cup {i}], db_exemaps, i + 1)
             ELSE The({ ExeMapReadAll([r EXCEPT !.w = w1, !.joined = @ \cup {i}],
                                      db_exemaps, i + 1)
                      : w1 \in {new_exe_map(r.w, r.exe_seqs[db_exemap.seq],
                                            r.map_seqs[db_exemap.map_seq],
                                            db_exemap.prob)} })

\* MarkovState::read_all from row i on: MarkovState::new(a, b, cycle, false,
\* state) puts the chain, with the fields of a new chain, into the sets of
\* its endpoints; time_to_leave and weight are set after that.  The chain
\* made for row i is <<a, b, i>>
RECURSIVE MarkovReadAll(_, _, _, _)
MarkovReadAll(r, db_markovs, i, cycle) ==
    IF i > Len(db_markovs) THEN r
    ELSE LET db_markov == db_markovs[i]
         IN  IF db_markov.a_seq \notin DOMAIN r.exe_seqs
                  \/ db_markov.b_seq \notin DOMAIN r.exe_seqs
             THEN MarkovReadAll(r, db_markovs, i + 1, cycle)
             ELSE LET a == r.exe_seqs[db_markov.a_seq]
                      b == r.exe_seqs[db_markov.b_seq]
                      id == <<a, b, i>>
                      this == [a |-> a, b |-> b, state |-> 0, change_timestamp |-> 0,
                               cycle |-> cycle, time |-> 0, time_to_leave |-> ArrayN,
                               weight |-> ArrayNxN]
                  IN  The({ MarkovReadAll(
                                [r EXCEPT !.w = [w3 EXCEPT
                                     !.markov[id].time_to_leave =
                                         ttl_from_read_ref(db_markov.time_to_leave),
                                     !.markov[id].weight =
                                         weight_from_read_ref(db_markov.weight)]],
                                db_markovs, i + 1, cycle)
                          : w3 \in {add_markov(add_markov(
                                        [r.w EXCEPT !.markov = (id :> this) @@ @],
                                        a, id), b, id)} })

\* State::set_running_process_callback(path, time)
set_running_process_callback(w, path, time) ==
    IF path \in w.state.exes
    THEN [w EXCEPT !.exe[path].running_timestamp = time,
                   !.state.running_exes = Append(@, path)]
    ELSE w

\* proc::proc_foreach(func, exeprefix) with the closure of read_state
RECURSIVE ProcForeachAtLoad(_, _, _)
ProcForeachAtLoad(w, procs, prefixes) ==
    IF procs = <<>> THEN w
    ELSE The({ ProcForeachAtLoad(w1, Tail(procs), prefixes)
             : w1 \in {IF accept_file(ExePathTable[Head(procs)], prefixes)
                       THEN set_running_process_callback(w, Head(procs), w.state.time)
                       ELSE w} })

\* the closure read_state hands to markov_foreach: a and b are both
\* markov.a.upgrade()
set_markov_state(w, id) ==
    [w EXCEPT !.markov[id].state =
        get_markov_state(w.exe[w.markov[id].a], w.exe[w.markov[id].a], w.state)]

\* the inner loop of markov_foreach at load: the chains whose endpoint a
\* is exe
RECURSIVE SetStateEach(_, _, _)
SetStateEach(w, exe, ids) ==
    IF ids = <<>> THEN w
    ELSE The({ SetStateEach(w1, exe, Tail(ids))
             : w1 \in {IF w.markov[Head(ids)].a = exe
                       THEN set_markov_state(w, Head(ids)) ELSE w} })

\* State::markov_foreach(closure of read_state): the set of each exe is
\* taken, walked and collected again
RECURSIVE MarkovForeachAtLoad(_, _)
MarkovForeachAtLoad(w, exes) ==
    IF exes = <<>> THEN w
    ELSE The({ MarkovForeachAtLoad(
                   [w1 EXCEPT !.exe[Head(exes)].markovs =
                       BTreeCollect(w.exe[Head(exes)].markovs, w1.markov, <<>>)],
                   Tail(exes))
             : w1 \in {SetStateEach([w EXCEPT !.exe[Head(exes)].markovs = <<>>],
                                    Head(exes), w.exe[Head(exes)].markovs)} })

\* State::read_state; procs are the exes of the processes in /proc.  The
\* result holds the world, the two seq tables and the exemap rows that
\* were joined and skipped
read_state(w, store, cycle, exeprefix, procs, my_version) ==
    The({ The({ The({ The({ The({
        IF r4.w.err THEN r4
        ELSE The({ [r4 EXCEPT !.w = MarkovForeachAtLoad(w6, SortedSeq(w6.state.exes))]
                 : w6 \in {[w5 EXCEPT !.state.last_running_timestamp = w5.state.time]} })
        : w5 \in {IF r4.w.err THEN r4.w
                  ELSE ProcForeachAtLoad(r4.w, SortedSeq(procs), exeprefix)} })
        : r4 \in {IF r3.w.err THEN r3
                  ELSE MarkovReadAll(r3, store.markovstates, 1, cycle)} })
        : r3 \in {IF r2.w.err THEN r2 ELSE ExeMapReadAll(r2, store.exemaps, 1)} })
        : r2 \in {IF r1.w.err THEN r1
                  ELSE ExeReadAll([r1 EXCEPT !.w = BadExeReadAll(r1.w, store.badexes, 1)],
                                  store.exes, 1, cycle)} })
        : r1 \in {MapReadAll([w |-> read_self(w, store, my_version),
                              map_seqs |-> EmptyFn, exe_seqs |-> EmptyFn,
                              joined |-> {}, skipped |-> {}],
                             store.maps, 1)} })

\* State::load: the objects that nothing refers to when read_state returns
\* are freed
load(store, cycle, exeprefix, procs, my_version) ==
    The({ [err |-> r.w.err, state |-> r.w.state,
           exe |-> [e \in r.w.state.exes |-> r.w.exe[e]],
           markov |-> [id \in LiveMarkovs(r.w) |-> r.w.markov[id]],
           map |-> [id \in LiveMaps(r.w) |-> r.w.map[id]],
           map_seqs |-> r.map_seqs, exe_seqs |-> r.exe_seqs,
           joined |-> r.joined, skipped |-> r.skipped]
        : r \in {read_state(NewWorld, store, cycle, exeprefix, procs, my_version)} })

\* ------------------------------------------------------------------------
\* A restart: the daemon is told by SIGUSR2 to save and stop, and the next
\* process loads what was saved
\* ------------------------------------------------------------------------
\* the SIGUSR2 arm writes the store (trial is the file of the store)
SaveAndExit ==
    /\ loop = "running"
    /\ trial = NoTrial
    /\ \E version \in Versions :
       \E w1 \in {signal_handler(World, "SIGUSR2", TRUE)} :
          /\ Commit(w1)
          /\ trial' = [op |-> "saved", store |-> write_state(World, EmptyStore, version)]
    /\ loop' = "stopped"
    /\ UNCHANGED <<conf, now, timers, last_tick>>

\* main of the next process: State::load(cycle, exeprefix, conn); `loaded`
\* is the graph of the new process, `resaved` what its write_state writes
\* into an empty store
Load ==
    /\ trial.op = "saved"
    /\ \E procs \in SUBSET ExeIds :
       \E g \in {load(trial.store, conf.cycle, conf.exeprefix, procs, crate_version)} :
          trial' = [op |-> "loaded", store |-> trial.store, procs |-> procs,
                    loaded |-> g,
                    resaved |-> IF g.err THEN EmptyStore
                                ELSE write_state([NewWorld EXCEPT !.state = g.state,
                                                    !.exe = g.exe, !.markov = g.markov,
                                                    !.map = g.map],
                                                 EmptyStore, crate_version)]
    /\ UNCHANGED mainvars

\* the event loop while the store has not been written
Running == Next /\ trial = NoTrial

NextRestart == Running \/ SaveAndExit \/ Load

SpecRestart == Init /\ [][NextRestart]_vars

\* ------------------------------------------------------------------------
\* State::load applied to a store on its own: the rows are drawn from
\* bounded sets
\* ------------------------------------------------------------------------
MaxRows == 2

\* the rows a table of the store may hold: the regions /usr/lib/x and
\* /usr/lib/y, the exes /usr/bin/a and /usr/bin/b, exemap rows on the seq
\* numbers 1 and 2, one chain
MapRows ==
    [k \in 1..2 |-> [seq |-> k, update_time |-> 0, offset |-> RegionTable[k].offset,
                     length |-> RegionTable[k].length,
                     uri |-> filename_to_uri(RegionTable[k].path)]]

ExeRows ==
    [k \in 1..2 |-> [seq |-> k, update_time |-> 0, time |-> 0,
                     uri |-> filename_to_uri(ExePathTable[k])]]

ExeMapRows == [seq : 1..2, map_seq : 1..2, prob : {Fin(1)}]

MarkovRows ==
    {<<>>, <<[a_seq |-> 1, b_seq |-> 2, time |-> 0,
              time_to_leave |-> ttl_to_vec(ArrayN),
              weight |-> weight_to_vec([ArrayNxN EXCEPT ![0][0] = 1])]>>}

Stores ==
    [states : {<<[version |-> v, time |-> 2]>> : v \in {crate_version, <<2, 0, 0>>}},
     maps : {SubSeq(MapRows, 1, n) : n \in 0..2} \cup {SubSeq(MapRows, 2, 2)},
     badexes : {<<>>},
     exes : {SubSeq(ExeRows, 1, n) : n \in 0..2},
     exemaps : SeqsUpTo(ExeMapRows, MaxRows),
     markovstates : MarkovRows]

InitLoad ==
    /\ Parked
    /\ trial \in {[op |-> "saved", store |-> s] : s \in Stores}

SpecLoad == InitLoad /\ [][Load]_vars

\* ------------------------------------------------------------------------
\* The event loop under configurations whose two rule lists differ
\* ------------------------------------------------------------------------
\* a rule list that rejects what is under /usr/bin and accepts the rest
\* of /usr
NoBinPrefix ==
    << <<"!", "/", "u", "s", "r", "/", "b", "i", "n", "/">>,
       <<"/", "u", "s", "r", "/">>,
       <<"!", "/">> >>

PrefixConfigs ==
    [cycle : {2}, usecorrelation : {TRUE}, minsize : {2},
     doscan : {TRUE}, dopredict : {FALSE}, autosave : {1},
     mapprefix : {DefaultPrefix, NoBinPrefix},
     exeprefix : {DefaultPrefix, NoBinPrefix}]

InitPrefix ==
    /\ state = StateDefault
    /\ exe_objs = EmptyFn
    /\ markov_objs = EmptyFn
    /\ map_objs = EmptyFn
    /\ conf \in PrefixConfigs
    /\ now = 0
    /\ timers = [autosave |-> conf.autosave, tick |-> 0, tick2 |-> 0]
    /\ loop = "running"
    /\ last_tick = "none"
    /\ calls = NoCalls
    /\ trial = NoTrial

SpecPrefix == InitPrefix /\ [][Next]_vars

\* ------------------------------------------------------------------------
\* The end of the process: main returns once the loop has stopped and
\* State is dropped field by field.  state.exes stands for the Exe objects
\* that are still alive (an Exe is freed when its last Rc goes, weak
\* references to it no longer upgrade)
\* ------------------------------------------------------------------------
\* BTreeSet::remove on a set that fits one leaf node: the node is searched
\* from its first key with the derived Ord; the entry that compares Equal
\* is removed
BTreeRemove(s, id, heap) ==
    LET at == {i \in 1..Len(s) : MarkovCmp(heap[id], heap[s[i]]) # 1}
    IN  IF at = {} THEN s
        ELSE LET i == CHOOSE j \in at : \A l \in at : j <= l
             IN  IF MarkovCmp(heap[id], heap[s[i]]) = 0
                 THEN SubSeq(s, 1, i - 1) \o SubSeq(s, i + 1, Len(s))
                 ELSE s

\* MarkovState::remove_from_exe(this): a and b are the endpoints that still
\* upgrade
remove_from_exe(w, id) ==
    IF w.markov[id].a \in w.state.exes
    THEN [w EXCEPT !.exe[w.markov[id].a].markovs = BTreeRemove(@, id, w.markov)]
    ELSE IF w.markov[id].b \in w.state.exes
         THEN [w EXCEPT !.exe[w.markov[id].b].markovs = BTreeRemove(@, id, w.markov)]
         ELSE w

RECURSIVE RemoveEach(_, _)
RemoveEach(w, ids) ==
    IF ids = <<>> THEN w
    ELSE The({ RemoveEach(w1, Tail(ids)) : w1 \in {remove_from_exe(w, Head(ids))} })

\* Drop for Exe: the set of the exe is taken and every chain of it is
\* handed to remove_from_exe
drop_exe(w, exe) ==
    RemoveEach([w EXCEPT !.state.exes = @ \ {exe}], w.exe[exe].markovs)

Range(s) == {s[i] : i \in 1..Len(s)}

\* the exes that a Vec of State holds a reference to
Held(st) ==
    Range(st.running_exes) \cup Range(st.state_changed_exes)
        \cup Range(st.new_running_exes)

\* the next reference that the drop of State lets go of, the fields in
\* declaration order: exes (in path order), running_exes,
\* state_changed_exes, new_running_exes
drop_next(w) ==
    LET st == w.state
        free == st.exes \ Held(st)
        vec == IF st.running_exes # <<>> THEN "running_exes"
               ELSE IF st.state_changed_exes # <<>> THEN "state_changed_exes"
               ELSE "new_running_exes"
        w1 == [w EXCEPT !.state[vec] = Tail(@)]
    IN  IF free # {} THEN drop_exe(w, CHOOSE e \in free : \A x \in free : e <= x)
        ELSE IF st[vec][1] \in Held(w1.state) THEN w1
             ELSE drop_exe(w1, st[vec][1])

\* one step of the drop of State
DropStep ==
    /\ loop \in {"stopped", "exiting"}
    /\ state.exes # {}
    /\ \E w1 \in {drop_next(World)} : Commit(w1)
    /\ loop' = "exiting"
    /\ UNCHANGED <<conf, now, timers, last_tick, trial>>

NextExit == Next \/ DropStep

SpecExit == Init /\ [][NextExit]_vars

\* ------------------------------------------------------------------------
\* prophet.rs: the prediction pass over the Maps (predict after the bids of
\* the chains, and the budget walk of readahead)
\* ------------------------------------------------------------------------
\* ExeMap::bid_in_maps on a Map whose lnprob is map_lnprob
bid_in_maps(map_lnprob, exe_running, exe_lnprob) ==
    IF exe_running THEN Fin(1) ELSE FAdd(map_lnprob, exe_lnprob)

\* the Maps of state.maps at a prediction pass
PredictRegions ==
    << [path |-> RegionTable[1].path, offset |-> 0, length |-> 2048],
       [path |-> RegionTable[2].path, offset |-> 0, length |-> 4096] >>

\* the for_each of predict over the exemaps of one exe (maps: the regions
\* of its ExeMaps), lnprob being the lnprob of every Map
RECURSIVE BidInMapsEach(_, _, _)
BidInMapsEach(lnprob, exe, maps) ==
    IF maps = <<>> THEN lnprob
    ELSE BidInMapsEach([lnprob EXCEPT ![Head(maps)] =
                            bid_in_maps(@, exe.running, exe.lnprob)],
                       exe, Tail(maps))

\* the for_each of predict over state.exes, in path order
RECURSIVE PredictExes(_, _)
PredictExes(lnprob, exes) ==
    IF exes = <<>> THEN lnprob
    ELSE PredictExes(BidInMapsEach(lnprob, Head(exes), SortedSeq(Head(exes).maps)),
                     Tail(exes))

\* prophet::predict from zero_prob on: the lnprob every Map is left with
predict_maps(exes) == PredictExes([r \in DOMAIN PredictRegions |-> Fin(0)], exes)

\* maps_on_prob after sort_unstable_by_key(lnprob): the Maps with their
\* lnprob in an order the sort may leave
maps_on_prob(lnprob) ==
    {[i \in DOMAIN PredictRegions |->
         [path |-> PredictRegions[p[i]].path, offset |-> PredictRegions[p[i]].offset,
          length |-> PredictRegions[p[i]].length, lnprob |-> lnprob[p[i]],
          block |-> -1, region |-> p[i]]]
        : p \in {q \in Permutations(DOMAIN PredictRegions) :
                    \A i \in 1..Len(PredictRegions) - 1 :
                        FCmp(lnprob[q[i]], lnprob[q[i + 1]]) <= 0}}

\* the exes of a pass in path order: whether a process of the exe was found
\* by the last scan, the regions it maps, and its lnprob after zero_prob
\* and the bids of its chains (every bid_in_exes that does not panic
\* returns before it bids)
PredictInputs ==
    [1..3 -> [running : BOOLEAN, maps : SUBSET DOMAIN PredictRegions, lnprob : {Fin(0)}]]

InitPredict ==
    /\ Parked
    /\ trial \in {[op |-> "predict", exes |-> e, budget |-> b, done |-> FALSE,
                   maps_arr |-> <<>>,
                   out |-> [panic |-> FALSE, memavailtotal |-> 0, steps |-> <<>>,
                            invoked |-> FALSE, handed |-> <<>>, sorted |-> <<>>,
                            err |-> FALSE, requests |-> <<>>, processed |-> 0]]
                    : e \in PredictInputs, b \in ReadaheadBudgets}

Predict ==
    /\ trial.op = "predict" /\ ~trial.done
    /\ \E maps_arr \in maps_on_prob(predict_maps(trial.exes)) :
       \E out \in prophet_readahead(maps_arr, trial.budget.memstat, "None",
                                    trial.budget.memtotal, trial.budget.memfree,
                                    trial.budget.memcached, FALSE) :
          trial' = [trial EXCEPT !.done = TRUE, !.maps_arr = maps_arr, !.out = out]
    /\ UNCHANGED mainvars

SpecPredict == InitPredict /\ [][Predict]_vars

\* ------------------------------------------------------------------------
\* Autosaves into one store: the rows that the saves of a process leave in
\* its statefile
\* ------------------------------------------------------------------------
\* the handler of State::autosave when write_state succeeds (trial is the
\* file of the store, with the graph as it is at this save)
SaveToStore ==
    /\ Due("autosave")
    /\ trial.op \in {"none", "saved"}
    /\ \E w1 \in {save(World, TRUE)} :
          /\ Commit(w1)
          /\ loop' = loop
    /\ trial' = [op |-> "saved",
                 store |-> write_state(World, IF trial.op = "saved" THEN trial.store
                                              ELSE EmptyStore, crate_version),
                 exes |-> state.exes, maps |-> state.maps,
                 exemaps |-> UNION {{<<e, x.map>> : x \in exe_objs[e].exemaps} : e \in state.exes},
                 markovs |-> DOMAIN markov_objs]
    /\ timers' = [timers EXCEPT !.autosave = @ + conf.autosave]
    /\ now' = timers.autosave
    /\ UNCHANGED <<conf, last_tick>>

NextStore == Tick \/ Tick2 \/ SaveToStore

\* ------------------------------------------------------------------------
\* Properties
\* ------------------------------------------------------------------------
\* the chains of the graph and the calls in which a transition was due
Chains == DOMAIN markov_objs

TransitionDue(r) == r.s_new # r.before.state /\ r.before.change_timestamp < r.time

\* C1: a call of state_changed performs a transition exactly when the
\* recomputed state differs from the recorded one and change_timestamp <
\* state.time; the transition adds one to weight[s_old][s_old] and to
\* weight[s_old][s_new], sets state and change_timestamp, and leaves the
\* other weights and the chain's time alone; otherwise the chain is unchanged
C1_StateChangedContract ==
    \A r \in calls.sc :
        LET old == r.before.state
            new == r.s_new
        IN  IF TransitionDue(r)
            THEN /\ r.after.weight =
                        [i \in 0..3 |-> [j \in 0..3 |->
                            IF i = old /\ j \in {old, new}
                            THEN r.before.weight[i][j] + 1 ELSE r.before.weight[i][j]]]
                 /\ r.after.state = new
                 /\ r.after.change_timestamp = r.time
                 /\ r.after.time = r.before.time
            ELSE r.after = r.before

C1_Witness ==
    /\ \E r \in calls.sc : TransitionDue(r)
    /\ \E r \in calls.sc : r.s_new = r.before.state

\* C2: every weight is >= 0 and in every row i the off-diagonal entries sum
\* to the diagonal entry weight[i][i]
RowSum(wt, i) ==
    LET others == SortedSeq((0..3) \ {i})
    IN  wt[i][others[1]] + wt[i][others[2]] + wt[i][others[3]]

C2_WeightRows ==
    \A id \in Chains : \A i \in 0..3 :
        /\ \A j \in 0..3 : markov_objs[id].weight[i][j] >= 0
        /\ RowSum(markov_objs[id].weight, i) = markov_objs[id].weight[i][i]

C2_Witness ==
    \E id \in Chains : \E i \in 0..3 : \E j \in (0..3) \ {i} :
        markov_objs[id].weight[i][j] > 0 /\ markov_objs[id].weight[i][i] > 0

\* C3: the dwell-mean update divides by the post-incremented count of
\* s_old -> s_new transitions, which is never zero; the first transition
\* s_old -> s_new moves time_to_leave[s_old] from 0 to the elapsed time
C3_DwellDivisor ==
    \A r \in calls.sc :
        LET old == r.before.state
            new == r.s_new
        IN  TransitionDue(r) =>
                /\ r.divisor = r.after.weight[old][new]
                /\ r.divisor >= 1
                /\ (r.before.weight[old][old] = 0 /\ r.before.time_to_leave[old] = Fin(0)
                        => r.after.time_to_leave[old] = Fin(r.time - r.before.change_timestamp))

\* C4: exactly one chain exists for every unordered pair of registered exes
\* and it is in the chain set of both endpoints
InMarkovs(e, id) == \E i \in 1..Len(exe_objs[e].markovs) : exe_objs[e].markovs[i] = id

ChainsOf(p, q) == {id \in Chains : {markov_objs[id].a, markov_objs[id].b} = {p, q}}

C4_OneChainPerPair ==
    \A p \in state.exes : \A q \in state.exes :
        p < q => /\ Cardinality(ChainsOf(p, q)) = 1
                 /\ \A id \in ChainsOf(p, q) : InMarkovs(p, id) /\ InMarkovs(q, id)

\* C5: the Region of every ExeMap of every registered Exe is in State.maps
C5_ExeMapRegionsRegistered ==
    \A e \in state.exes : \A x \in exe_objs[e].exemaps :
        \E j \in state.maps : MapEq(map_objs[j], map_objs[x.map])

\* C6: a Region's seq is assigned only at its first registration (a Region
\* that already has a seq keeps it) and no two Regions of State.maps share
\* a seq
C6_SeqAssignedOnce ==
    /\ \A r \in calls.rm : r.ok => r.seq_before = 0
    /\ \A i \in state.maps : \A j \in state.maps :
          i # j => map_objs[i].seq # map_objs[j].seq

\* C7: register_map of a Region equal to a registered one fails and changes
\* neither the registry nor the counter; otherwise the Region is inserted
\* with a seq greater than every seq assigned before, and the registry then
\* holds exactly one instance with that seq
C7_RegisterMapContract ==
    \A r \in calls.rm :
        IF r.ok
        THEN /\ r.maps_after = r.maps_before \cup {r.map}
             /\ \A s \in r.prior_seqs : r.seq_after > s
             /\ r.same_seq = 1
        ELSE /\ r.maps_after = r.maps_before
             /\ r.map_seq_after = r.map_seq_before
             /\ r.seq_after = r.seq_before

\* C8: the handlers of tick and tick2 are dispatched in strict alternation,
\* starting with tick
TickRan == timers'.tick # timers.tick

Tick2Ran == timers'.tick2 # timers.tick2

C8_TicksAlternate ==
    [][/\ TickRan => last_tick \in {"none", "tick2"}
       /\ Tick2Ran => last_tick = "tick"]_vars

\* C9: tick advances the logical time by ceil(cycle/2), tick2 by
\* floor(cycle/2), no other handler changes it and it never decreases
C9_TimeAdvance ==
    [][/\ TickRan => state'.time = state.time + (conf.cycle + 1) \div 2
       /\ Tick2Ran => state'.time = state.time + conf.cycle \div 2
       /\ ~TickRan /\ ~Tick2Ran => state'.time = state.time
       /\ state'.time >= state.time]_vars

\* C10: the accounting of a model update adds period = state.time -
\* last_accounting_timestamp once to the time of every running exe and of
\* every chain in state 3, nothing to the others, and then sets
\* last_accounting_timestamp = state.time
AccountingRan == Tick2Ran /\ state.model_dirty /\ loop' = "running"

C10_Accounting ==
    [][AccountingRan =>
        LET period == state.time - state.last_accounting_timestamp
        IN  /\ \A e \in state'.exes :
                  exe_objs'[e].time =
                      (IF e \in state.exes THEN exe_objs[e].time ELSE 0)
                          + (IF is_running(exe_objs'[e], state') THEN period ELSE 0)
            /\ \A id \in DOMAIN markov_objs' :
                  markov_objs'[id].time =
                      (IF id \in Chains THEN markov_objs[id].time ELSE 0)
                          + (IF markov_objs'[id].state = 3 THEN period ELSE 0)
            /\ state'.last_accounting_timestamp = state.time]_vars

\* C11: a new exe whose maps were read is registered, and paired with every
\* exe registered before it, exactly when the total raw size of its maps
\* (filtered-out regions included) is >= minsize; otherwise it is in bad_exes
\* and not in exes; no ExeMap of it refers to a filtered-out region
C11_MinsizeGate ==
    \A r \in calls.nx :
        r.exited = 0 =>
            /\ r.registered <=> r.size >= r.minsize
            /\ r.size < r.minsize => r.bad /\ ~r.registered
            /\ r.registered => r.paired = r.existing
            /\ \A f \in r.mapped : accept_file(f, conf.mapprefix)

\* C12: an exe in bad_exes is not in exes and no scan queues it in new_exes;
\* a successful save empties bad_exes and clears dirty, a failed save
\* changes neither
AutosaveRan == timers'.autosave # timers.autosave

C12_BadExes ==
    [][/\ \A p \in DOMAIN state.bad_exes : p \notin state.exes
       /\ TickRan => \A p \in DOMAIN state.bad_exes : p \notin state'.new_exes
       /\ AutosaveRan /\ loop' = "running" =>
             state'.bad_exes = EmptyFn /\ ~state'.dirty
       /\ AutosaveRan /\ loop' # "running" =>
             state'.bad_exes = state.bad_exes /\ state'.dirty = state.dirty]_vars

C12_Witness ==
    /\ last_tick = "tick"
    /\ calls.skipped # {}
    /\ calls.skipped \subseteq DOMAIN state.bad_exes
    /\ state.new_exes \cap DOMAIN state.bad_exes = {}

\* C13: bid_in_exes on a chain in state s with weight[s][s] > 0 bids for
\* endpoint a with ystate 1 exactly when a is not running in s, and for
\* endpoint b with ystate 2 exactly when b is not running in s
ExpectedBids(s) ==
    (IF s % 2 = 0 THEN <<[exe |-> "a", ystate |-> 1]>> ELSE <<>>)
        \o (IF (s \div 2) % 2 = 0 THEN <<[exe |-> "b", ystate |-> 2]>> ELSE <<>>)

C13_BidInExes ==
    trial.op = "bid_in_exes" /\ trial.done
        /\ trial.m.weight[trial.m.state][trial.m.state] > 0
    => ~trial.out.panic /\ trial.out.bids = ExpectedBids(trial.m.state)

\* C18: for times with 0 <= ab <= min(a, b), a <= t, b <= t and
\* ab >= a + b - t, correlation is 0 when a or b is 0 or t, and otherwise is
\* (t*ab - a*b) / sqrt(a*b*(t-a)*(t-b)), a value in [-1, 1]; it is 1 when
\* ab = a = b = t/2
C18_Correlation ==
    trial.op = "correlation" /\ trial.done =>
        LET i == trial.in
            degenerate == i.a = 0 \/ i.a = i.t \/ i.b = 0 \/ i.b = i.t
        IN  /\ ~trial.out.panic
            /\ degenerate => IsZero(trial.out)
            /\ ~degenerate => InUnit(trial.out)
            /\ ~degenerate /\ i.t <= MaxTime =>
                   /\ trial.out.numerator = i.t * i.ab - i.a * i.b
                   /\ trial.out.denominator2 = i.a * i.b * (i.t - i.a) * (i.t - i.b)
            /\ ~degenerate /\ i.ab = i.a /\ i.a = i.b /\ 2 * i.a = i.t => IsOne(trial.out)

\* C16: the budget in KiB is max(0, total*memtotal/100 + free*memfree/100)
\* + cached*memcached/100 with every percentage clamped to [-100, 100], for
\* every snapshot of the range and every percentage triple
C16_Budget ==
    trial.op = "memavail" /\ trial.done /\ trial.memstat.total <= 50 * MaxMem =>
        /\ ~trial.out.panic
        /\ trial.out.kb =
              Max(0, (trial.memstat.total * Clamp(trial.memtotal, -100, 100)) \div 100
                     + (trial.memstat.free * Clamp(trial.memfree, -100, 100)) \div 100)
              + (trial.memstat.cached * Clamp(trial.memcached, -100, 100)) \div 100

\* a request covers a file entry
Covers(r, f) ==
    r.path = f.path /\ r.offset <= f.offset /\ f.offset + f.length <= r.offset + r.length

\* entry i of a sorted list begins a run: it neither touches nor overlaps
\* what the entries of its path before it cover
BeginsRun(fs, i) ==
    \A j \in 1..i - 1 :
        fs[j].path = fs[i].path => fs[j].offset + fs[j].length < fs[i].offset

\* C19: of a non-empty sorted list every entry is covered by exactly one
\* emitted request, the last run included; every maximal run of touching or
\* overlapping entries of one path gives one request; (p,0,100),(p,100,50)
\* gives exactly (p,0,150); a list of one entry gives one request
C19_Coalesce ==
    trial.op = "coalesce" /\ trial.done =>
        LET fs == trial.files
            out == trial.out
        IN  /\ \A i \in 1..Len(fs) :
                  Cardinality({j \in 1..Len(out) : Covers(out[j], fs[i])}) = 1
            /\ Len(out) = Cardinality({i \in 1..Len(fs) : BeginsRun(fs, i)})
            /\ Len(fs) = 1 => out = <<fs[1]>>
            /\ (/\ Len(fs) = 2 /\ fs[1].path = fs[2].path
                /\ fs[1].offset = 0 /\ fs[1].length = 100
                /\ fs[2].offset = 100 /\ fs[2].length = 50)
                  => out = <<[path |-> fs[1].path, offset |-> 0, length |-> 150]>>

\* the Maps of maps_arr that entered the body of the walk, in order
RECURSIVE Selected(_, _)
Selected(maps_arr, steps) ==
    IF maps_arr = <<>> THEN <<>>
    ELSE (IF Head(steps).taken THEN <<Head(maps_arr)>> ELSE <<>>)
         \o Selected(Tail(maps_arr), Tail(steps))

RECURSIVE SumKb(_)
SumKb(maps) == IF maps = <<>> THEN 0 ELSE kb(Head(maps).length) + SumKb(Tail(maps))

ReadaheadRan == trial.op = "readahead" /\ trial.done /\ ~trial.out.panic

\* C14: walking the Maps in ascending lnprob order, a Map is selected iff
\* its lnprob is below 0 and its size in KiB is within the remaining budget;
\* the budget is reduced by the size of a selected Map only, never becomes
\* negative, and the selected sizes add up to at most the initial budget
C14_BudgetWalk ==
    ReadaheadRan =>
        LET ms == trial.maps_arr
            steps == trial.out.steps
        IN  /\ \A i \in 1..Len(ms) :
                  /\ steps[i].taken <=> /\ FCmp(ms[i].lnprob, Fin(0)) < 0
                                        /\ kb(ms[i].length) <= steps[i].before
                  /\ steps[i].after = IF steps[i].taken
                                      THEN steps[i].before - kb(ms[i].length)
                                      ELSE steps[i].before
                  /\ steps[i].before >= 0 => steps[i].after >= 0
            /\ trial.out.memavailtotal >= 0 =>
                  SumKb(Selected(ms, steps)) <= trial.out.memavailtotal

\* C15: the list handed to the read-ahead executor is exactly the selected
\* Maps in probability order, no Map that was not selected is part of a
\* request, and with nothing selected the executor is not invoked
C15_HandedList ==
    ReadaheadRan =>
        LET ms == trial.maps_arr
            steps == trial.out.steps
        IN  /\ trial.out.invoked => trial.out.handed = Selected(ms, steps)
            /\ \A i \in 1..Len(ms), j \in 1..Len(trial.out.requests) :
                  ~steps[i].taken => ~Covers(trial.out.requests[j], ms[i])
            /\ Selected(ms, steps) = <<>> => ~trial.out.invoked

\* C17: with memtotal = memfree = memcached = 0 no Map is selected and no
\* read-ahead request is issued
C17_ZeroBudget ==
    /\ ReadaheadRan
    /\ trial.budget.memtotal = 0 /\ trial.budget.memfree = 0 /\ trial.budget.memcached = 0
    => /\ Selected(trial.maps_arr, trial.out.steps) = <<>>
       /\ ~trial.out.invoked
       /\ trial.out.requests = <<>>

\* C20: in every interleaving of the workers over N requests each request
\* is attempted exactly once, a failed request does not keep the others
\* from being attempted, and the value returned after the join is the
\* number of requests that succeeded
C20_Pool ==
    trial.op = "pool" =>
        /\ \A r \in 1..trial.n : trial.attempts[r] <= 1
        /\ trial.processed <= Cardinality({r \in 1..trial.n : trial.outcome[r] = "ok"})
        /\ trial.joined =>
              /\ \A r \in 1..trial.n : trial.attempts[r] = 1
              /\ trial.returned = Cardinality({r \in 1..trial.n : trial.outcome[r] = "ok"})

C20_Witness ==
    /\ trial.op = "pool" /\ trial.joined /\ trial.n >= 3
    /\ \E r \in 1..trial.n : trial.outcome[r] = "err"
    /\ Cardinality({r \in 1..trial.n : trial.outcome[r] = "ok"}) >= 2
    /\ \E r, q \in 1..trial.n : trial.by[r] # trial.by[q]

\* a stat failed while the blocks were assigned
StatFailed ==
    trial.out.err \/ \E i \in 1..Len(trial.out.sorted) : trial.out.sorted[i].block = 0

\* C21: under the Inode or Block strategy a stat failure for one Map does
\* not abort the batch: after the sort step every Map of the list has a
\* key >= 0, the list is ascending by key, and the requests for the other
\* Maps are still issued
C21_StatFailure ==
    /\ ReadaheadRan /\ trial.out.invoked
    /\ trial.sortstrategy \in {"Inode", "Block"}
    /\ StatFailed
    => LET sorted == trial.out.sorted
       IN  /\ ~trial.out.err
           /\ \A i \in 1..Len(sorted) : sorted[i].block >= 0
           /\ \A i \in 1..Len(sorted) - 1 : sorted[i].block <= sorted[i + 1].block
           /\ \A i \in 1..Len(sorted) :
                  sorted[i].block # 0 =>
                      \E j \in 1..Len(trial.out.requests) :
                          Covers(trial.out.requests[j], sorted[i])

\* a probe of the maps of a new exe failed in the model update of this step
ProbeFailed ==
    /\ Tick2Ran /\ state.model_dirty
    /\ \E r \in calls'.nx : r.exited = 1 \/ (r.exited = 2 /\ r.size >= r.minsize)

\* C26: when probing the maps of a new exe fails during a model update, the
\* loop is not stopped, the other new exes are still reconciled, and the
\* state-change callbacks and the accounting of that update still run
C26_ProbeErrorRecovered ==
    [][ProbeFailed =>
          /\ loop' = loop
          /\ \A p \in state.new_exes : \E r \in calls'.nx : r.path = p
          /\ state'.state_changed_exes = <<>>
          /\ state'.last_accounting_timestamp = state.time]_vars

\* the rule without its leading '!', and whether it had one
RawPrefix(rule) == IF Len(rule) > 0 /\ rule[1] = "!" THEN SubSeq(rule, 2, Len(rule)) ELSE rule

Negated(rule) == Len(rule) > 0 /\ rule[1] = "!"

\* the rules of the list that the file starts with (Path::starts_with)
Matching(file, prefixes) ==
    {i \in 1..Len(prefixes) : PathStartsWith(file, RawPrefix(prefixes[i]))}

\* C29: accept_file classifies a path by the first rule, in list order,
\* whose raw prefix the path starts with: reject if that rule began with
\* '!', accept otherwise; later rules are not consulted; a path matched by
\* no rule, or an empty list, is accepted
C29_FirstMatch ==
    trial.op = "accept_file" /\ trial.done =>
        LET m == Matching(trial.file, trial.prefixes)
        IN  /\ m = {} => trial.out
            /\ m # {} => \E i \in m : /\ \A j \in m : i <= j
                                      /\ trial.out = ~Negated(trial.prefixes[i])
            /\ (trial.file = <<"/", "b", "i", "n", "/", "l", "s">> /\ trial.prefixes = <<<<"/", "s", "b", "i", "n">>, <<"/", "l", "i", "b">>, <<"/", "b", "i", "n">>>>) => trial.out
            /\ (trial.file = <<"/", "b", "i", "n", "/", "l", "s">> /\ trial.prefixes = <<<<"/", "s", "b", "i", "n">>, <<"/", "l", "i", "b">>, <<"!", "/", "b", "i", "n">>>>) => ~trial.out

C29_Witness ==
    /\ trial.op = "accept_file" /\ trial.done
    /\ \E i, j \in Matching(trial.file, trial.prefixes) :
          /\ i < j
          /\ \A k \in Matching(trial.file, trial.prefixes) : i <= k
          /\ ~Negated(trial.prefixes[i]) /\ Negated(trial.prefixes[j])
    /\ trial.out

\* file starts with prefix, byte for byte
BytePrefix(file, prefix) ==
    Len(prefix) <= Len(file) /\ SubSeq(file, 1, Len(prefix)) = prefix

\* C30: a rule matches a path as a case-sensitive byte prefix, not per path
\* component: "/lib" matches "/lib/x", "/lib64/x" and "/libexec/x", and
\* "!/usr/sbin/" rejects "/usr/sbin/cron" but not "/usr/sbinx"
C30_BytePrefix ==
    trial.op = "accept_file" /\ trial.done =>
        LET m == {i \in 1..Len(trial.prefixes) :
                     BytePrefix(trial.file, RawPrefix(trial.prefixes[i]))}
        IN  /\ m = {} => trial.out
            /\ m # {} => \E i \in m : /\ \A j \in m : i <= j
                                      /\ trial.out = ~Negated(trial.prefixes[i])

\* C27: each firing of the autosave timer calls save once; if the save
\* fails the loop is asked to stop; if it succeeds the loop keeps running
\* and the next autosave timeout is pending autosave seconds later
C27_Autosave ==
    [][AutosaveRan =>
          /\ Len(calls'.saves) = 1
          /\ ~calls'.saves[1].written => loop' = "stopped"
          /\ calls'.saves[1].written =>
                /\ loop' = "running"
                /\ timers'.autosave = now' + conf.autosave]_vars

C27_Witness ==
    /\ Len(calls.saves) = 1 /\ calls.signal = "none"
    /\ calls.saves[1].written
    /\ loop = "running"
    /\ timers.autosave = now + conf.autosave

\* C28: on SIGUSR2 a save is attempted before the stop is requested, and
\* the stop is requested whether or not the save succeeds; on SIGTERM,
\* SIGINT and SIGQUIT the stop is requested without any save
C28_Signals ==
    [][/\ calls'.signal = "SIGUSR2" =>
             /\ Len(calls'.saves) = 1
             /\ ~calls'.saves[1].stop
             /\ loop' = "stopped"
       /\ calls'.signal \in {"SIGTERM", "SIGINT", "SIGQUIT"} =>
             /\ calls'.saves = <<>>
             /\ loop' = "stopped"
             /\ state' = state]_vars

C28_Witness ==
    /\ calls.signal = "SIGUSR2" /\ loop = "stopped"
    /\ Len(calls.saves) = 1 /\ ~calls.saves[1].written
    /\ last_tick = "tick"

\* what a graph holds of its Exes, Regions, ExeMaps and chains: the fields
\* that the store keeps
ExeView(g) ==
    {<<e, g.exe[e].time, g.exe[e].update_time, g.exe[e].seq>> : e \in g.state.exes}

RegionOf(m) == <<m.path, m.offset, m.length>>

RegionView(g) ==
    {<<RegionOf(g.map[id]), g.map[id].update_time, g.map[id].seq>> : id \in g.state.maps}

ExeMapView(g) ==
    UNION {{<<e, RegionOf(g.map[x.map]), x.prob>> : x \in g.exe[e].exemaps}
              : e \in g.state.exes}

ChainView(g) ==
    {<<g.markov[id].a, g.markov[id].b, g.markov[id].time,
       g.markov[id].time_to_leave, g.markov[id].weight>> : id \in DOMAIN g.markov}

\* the graph that was saved (the loop has stopped; nothing changes it)
Saved == [state |-> state, exe |-> exe_objs, markov |-> markov_objs, map |-> map_objs]

\* a store has been loaded by a binary of the version that wrote it
LoadedSameVersion ==
    trial.op = "loaded" /\ trial.store.states[1].version = crate_version

\* C22: save followed by load into a fresh graph is a round trip: the
\* loaded graph has the logical time, the Exes, the Regions, the ExeMaps
\* and the chains of the saved graph, and saving it writes what the first
\* save wrote
C22_RoundTrip ==
    LoadedSameVersion =>
        /\ ~trial.loaded.err
        /\ trial.loaded.state.time = state.time
        /\ ExeView(trial.loaded) = ExeView(Saved)
        /\ RegionView(trial.loaded) = RegionView(Saved)
        /\ ExeMapView(trial.loaded) = ExeMapView(Saved)
        /\ ChainView(trial.loaded) = ChainView(Saved)
        /\ trial.resaved = trial.store

\* row i of exemaps joins a loaded Exe and a loaded Region
Joins(i) ==
    /\ trial.store.exemaps[i].seq \in DOMAIN trial.loaded.exe_seqs
    /\ trial.store.exemaps[i].map_seq \in DOMAIN trial.loaded.map_seqs

C24_ChainStateAfterLoad ==
    (trial.op = "loaded" /\ ~trial.loaded.err) =>
        \A id \in DOMAIN trial.loaded.markov :
            trial.loaded.markov[id].state =
                (IF trial.loaded.markov[id].a \in trial.procs THEN 1 ELSE 0)
                    + (IF trial.loaded.markov[id].b \in trial.procs THEN 2 ELSE 0)

\* C25: a store of a greater major version is ignored, the load succeeds
\* with the reinitialized graph; the rows of a store of a smaller or equal
\* major version are loaded
C25_NewerStoreIgnored ==
    trial.op = "loaded" =>
        IF MajorCmp(crate_version, trial.store.states[1].version) = -1
        THEN /\ ~trial.loaded.err
             /\ trial.loaded.state.time = 0
             /\ trial.loaded.state.exes = {}
             /\ trial.loaded.state.maps = {}
             /\ DOMAIN trial.loaded.markov = {}
        ELSE ~trial.loaded.err =>
                /\ trial.loaded.state.time = trial.store.states[1].time
                /\ trial.loaded.state.exes =
                      {ExeOfPath(uri_to_filename(trial.store.exes[i].uri))
                          : i \in 1..Len(trial.store.exes)}

\* C31: a scan classifies executable paths with exeprefix and region paths
\* with mapprefix: every exe a scan has reported is accepted by exeprefix
\* whatever mapprefix is, and every region kept for an exe is accepted by
\* mapprefix whatever exeprefix is
C31_SeparateRuleLists ==
    /\ \A e \in state.new_exes \cup state.exes :
          accept_file(ExePathTable[e], conf.exeprefix)
    /\ \A e \in state.exes : \A x \in exe_objs[e].exemaps :
          accept_file(map_objs[x.map].path, conf.mapprefix)

\* the chains that are in the set of an exe
InSetOf(objs, e) == Range(objs[e].markovs)

\* the exes that a step has dropped
Dropped == DOMAIN exe_objs \ DOMAIN exe_objs'

\* C32: when an Exe is dropped, every chain that references it leaves the
\* set of its partner, no chain of another pair leaves a set, and every
\* chain that remains has both endpoints among the exes
C32_DropRemovesChains ==
    [][\A e \in Dropped :
          /\ \A x \in DOMAIN exe_objs' : \A id \in InSetOf(exe_objs', x) :
                /\ markov_objs'[id].a # e /\ markov_objs'[id].b # e
                /\ markov_objs'[id].a \in state'.exes
                /\ markov_objs'[id].b \in state'.exes
          /\ \A x \in DOMAIN exe_objs' : \A id \in InSetOf(exe_objs, x) :
                (markov_objs[id].a # e /\ markov_objs[id].b # e)
                    => id \in InSetOf(exe_objs', x)]_vars

\* ---------------------------------------------------------------------------
\* C33: after every scan, state_changed_exes holds exactly the known exes
\* whose running status differs between the previous scan and this one and
\* running_exes exactly the known exes observed in this scan, each of them
\* once; an exe of the previous scan that this scan did not observe is no
\* longer running.
\* ---------------------------------------------------------------------------

\* this tick is the scan that finds processes of exactly the exes procs
ScannedAs(procs) ==
    \E w1 \in {scan(World, procs, conf.mapprefix)} :
       /\ state'.running_exes = w1.state.running_exes
       /\ state'.state_changed_exes = w1.state.state_changed_exes
       /\ state'.new_exes = w1.state.new_exes
       /\ \A e \in state.exes : exe_objs'[e].running_timestamp = w1.exe[e].running_timestamp

EachOnce(s) == \A i, j \in 1..Len(s) : s[i] = s[j] => i = j

ScanBookkeeping(before, seen) ==
    /\ Range(state'.running_exes) = seen
    /\ Range(state'.state_changed_exes) = (seen \ before) \cup (before \ seen)
    /\ EachOnce(state'.running_exes)
    /\ EachOnce(state'.state_changed_exes)
    /\ \A e \in before \ seen : ~is_running(exe_objs'[e], state')

\* the scanning daemon with the shortest cycles
ScanConfigs ==
    [cycle : {1, 2}, usecorrelation : {TRUE}, minsize : {2},
     doscan : {TRUE}, dopredict : {FALSE}, autosave : {1},
     mapprefix : {DefaultPrefix}, exeprefix : {DefaultPrefix}]

InitScan ==
    /\ state = StateDefault
    /\ exe_objs = EmptyFn
    /\ markov_objs = EmptyFn
    /\ map_objs = EmptyFn
    /\ conf \in ScanConfigs
    /\ now = 0
    /\ timers = [autosave |-> conf.autosave, tick |-> 0, tick2 |-> 0]
    /\ loop = "running"
    /\ last_tick = "none"
    /\ calls = NoCalls
    /\ trial = NoTrial

SpecScan == InitScan /\ [][Next]_vars

\* C33: every scan leaves in running_exes exactly the known exes it observed
\* and in state_changed_exes exactly those whose status changed, each once,
\* and an exe it no longer observed is not running afterwards
C33_ScanBookkeeping ==
    [][TickRan /\ conf.doscan =>
         \A procs \in SUBSET ExeIds :
            ScannedAs(procs) =>
               ScanBookkeeping(Range(state.running_exes), procs \cap state.exes)]_vars

\* the model update of this tick2 ran to its end
UpdateCompleted == Tick2Ran /\ state.model_dirty /\ loop' = "running"

\* C34: after every completed model update every chain's state is
\* (a running ? 1 : 0) | (b running ? 2 : 0) for the latest scan, the chains
\* created in that update and those with two changed endpoints included
C34_ChainStateCurrent ==
    [][UpdateCompleted =>
         \A id \in DOMAIN markov_objs' :
            markov_objs'[id].state =
               get_markov_state(exe_objs'[markov_objs'[id].a],
                                exe_objs'[markov_objs'[id].b], state')]_vars

\* the daemon started one second before the instant 0: one more round of
\* scan and model update lies before the horizon MaxNow
AccountingConfigs ==
    [cycle : {2}, usecorrelation : {TRUE}, minsize : {2},
     doscan : {TRUE}, dopredict : {FALSE}, autosave : {1},
     mapprefix : {DefaultPrefix}, exeprefix : {DefaultPrefix}]

InitAccounting ==
    /\ state = StateDefault
    /\ exe_objs = EmptyFn
    /\ markov_objs = EmptyFn
    /\ map_objs = EmptyFn
    /\ conf \in AccountingConfigs
    /\ now = 0 - 1
    /\ timers = [autosave |-> now + conf.autosave, tick |-> now, tick2 |-> now]
    /\ loop = "running"
    /\ last_tick = "none"
    /\ calls = NoCalls
    /\ trial = NoTrial

SpecAccounting == InitAccounting /\ [][Next]_vars

\* C35: in every reachable state a chain's time is at most the time of each
\* of its endpoints, and an exe's time is at most the logical time
C35_TimesBounded ==
    /\ \A id \in Chains :
          /\ markov_objs[id].time <= exe_objs[markov_objs[id].a].time
          /\ markov_objs[id].time <= exe_objs[markov_objs[id].b].time
    /\ \A e \in state.exes : exe_objs[e].time <= state.time

\* C36: for every t up to 86400 with 0 < a < t, 0 < b < t and
\* 0 <= ab <= min(a, b) the integer intermediates of correlation,
\* t*ab - a*b and a*b*(t-a)*(t-b), stay within i32: a build with overflow
\* checks does not panic and a build without them computes the same values
C36_CorrelationFitsI32 ==
    trial.op = "correlation" /\ trial.done =>
        LET i == trial.in
        IN  /\ i.t <= 86400 /\ 0 < i.a /\ i.a < i.t /\ 0 < i.b /\ i.b < i.t
            /\ 0 <= i.ab /\ i.ab <= Min(i.a, i.b)
            => /\ ~trial.out.panic
               /\ trial.out = correlation(i.t, i.a, i.b, i.ab, TRUE)

\* C37: after a prediction pass a Region that a running exe maps has an
\* lnprob of at least 0 and is not selected by the budget walk, whatever
\* not-running exes map it too and wherever they stand in the order of visit
C37_RunningRegionsNotSelected ==
    trial.op = "predict" /\ trial.done /\ ~trial.out.panic =>
        \A i \in 1..Len(trial.maps_arr) :
            (\E e \in DOMAIN trial.exes :
                trial.exes[e].running /\ trial.maps_arr[i].region \in trial.exes[e].maps)
            => /\ FCmp(trial.maps_arr[i].lnprob, Fin(0)) >= 0
               /\ ~trial.out.steps[i].taken

\* the entries of the maximal run of touching or overlapping entries that
\* entry i of a sorted list begins
RunOf(fs, i) ==
    {k \in i..Len(fs) :
        fs[k].path = fs[i].path /\ \A m \in (i + 1)..k : ~BeginsRun(fs, m)}

\* the largest end of the entries ks of a list
MaxEnd(fs, ks) ==
    CHOOSE e \in {fs[k].offset + fs[k].length : k \in ks} :
        \A k \in ks : fs[k].offset + fs[k].length <= e

\* C38: the request made for a run of merged entries that another run
\* follows begins at the smallest offset of the run and ends at its largest
\* end: (p,0,100) then (p,10,20) is requested as (p,0,100), not shortened
C38_CoalesceCoversUnion ==
    trial.op = "coalesce" /\ trial.done =>
        LET fs == trial.files
        IN  \A i \in 1..Len(fs) :
               BeginsRun(fs, i) /\ (\E k \in 1..Len(fs) : k \notin RunOf(fs, i) /\ k > i)
               => \E j \in 1..Len(trial.out) :
                     /\ trial.out[j].path = fs[i].path
                     /\ trial.out[j].offset = fs[i].offset
                     /\ trial.out[j].offset + trial.out[j].length = MaxEnd(fs, RunOf(fs, i))

\* the daemon of SpecAccounting with its statefile
SpecStore == InitAccounting /\ [][NextStore]_vars

\* the graph that a load of the store of trial gives the next process
Reloaded == load(trial.store, conf.cycle, conf.exeprefix, {}, crate_version)

\* C39: after any number of saves into one store the store holds exactly
\* one row for every Region, Exe, ExeMap and chain of the graph of the last
\* save, and a load of it succeeds and gives one chain for a pair of exes
C39_SavesReplaceRows ==
    trial.op = "saved" =>
        /\ Len(trial.store.maps) = Cardinality(trial.maps)
        /\ Len(trial.store.exes) = Cardinality(trial.exes)
        /\ Len(trial.store.exemaps) = Cardinality(trial.exemaps)
        /\ Len(trial.store.markovstates) = Cardinality(trial.markovs)
        /\ ~Reloaded.err
        /\ \A m, n \in DOMAIN Reloaded.markov :
              /\ Reloaded.markov[m].a = Reloaded.markov[n].a
              /\ Reloaded.markov[m].b = Reloaded.markov[n].b
              => m = n

\* C40: model_dirty is true exactly from a scan until the next completed
\* model update: a scan sets it, a completed update clears it, and a
\* model-update tick that no scan precedes since the update before it does
\* no reconciliation, no changed callback and no accounting
C40_ModelDirty ==
    [][/\ TickRan /\ conf.doscan => state'.model_dirty
       /\ UpdateCompleted => ~state'.model_dirty
       /\ Tick2Ran /\ last_tick = "tick2" =>
             /\ exe_objs' = exe_objs
             /\ markov_objs' = markov_objs
             /\ state'.last_accounting_timestamp = state.last_accounting_timestamp]_vars

====
